---- MODULE Spec2Model ----
(***************************************************************************)
(* Model of the adaptive two-pass document-to-chunk pipeline of            *)
(* Project-Astryx: process_document and its helpers (processor.py),        *)
(* extract_nodes (chunker.py) and the ingestion of nodes (worker.py).      *)
(*                                                                         *)
(* A markdown string is modelled as the non-empty sequence of its lines    *)
(* (what str.split("\n") returns); the empty string is <<"">>.  A line is  *)
(* either blank ("") or a token without surrounding white space.           *)
(* A Python dict with integer keys is a function whose DOMAIN is the key   *)
(* set; a Python list is a sequence (index i of the list is i+1 here).     *)
(***************************************************************************)
EXTENDS Integers, Sequences, FiniteSets, Bags, TLC

VARIABLES
    pc,                  \* position inside process_document
    path_exists,         \* os.path.exists(file_path)
    is_pdf,              \* _is_pdf_file(file_path)
    total_pages,         \* len(fitz.open(file_path))
    easy_result,         \* cheap-pass conversion result (None: present = FALSE)
    easy_page_markdown,  \* cheap-pass page map
    easy_exc,            \* the cheap-mode conversion raised (caught in easy mode)
    simple_pages,
    complex_pages,
    complexity_info,
    triage_exc,          \* the content analysis raised (caught in triage)
    complex_results,     \* high-fidelity page map
    all_images,
    hifi_exc,            \* the high-fidelity pass raised (caught)
    hifi_calls,          \* one entry per convert_all call: the page indices submitted
    final_page_markdown,
    merged_markdown,
    ret,                 \* what process_document returned: "pending", "None", "result"
    error_log,           \* contexts reported through _handle_processing_error / print
    chunks,              \* the chunk list handed to extract_nodes
    file_sha256,         \* content hash of the file (a string, given by its characters)
    user,
    nodes,               \* "nodes" of the nodes document of the latest extract_nodes run
    nodes_exc,           \* the latest extract_nodes run raised
    prev_ids,            \* node ids of the run before the latest
    prev_sha,            \* file_sha256 of the run before the latest
    runs,                \* number of extract_nodes runs so far
    w_pc,                \* per worker: position inside ingest
    w_nodes,             \* per worker: its node list (after add_metadata)
    w_idx,               \* per worker: next object / reference to submit
    store_objects,       \* vector store: the objects it holds
    store_refs,          \* vector store: bag of the references it holds
    doc_pages,           \* chunker input: page_markdown.items(), a list of [key, text]
    doc_images,          \* chunker input: content["images"]
    doc_markdown,        \* chunker input: content["markdown"]
    chunk_size,          \* DocumentChunker.chunk_size
    overlap,             \* DocumentChunker.overlap
    chunked,             \* chunk_docling_result_with_pages has returned
    source_doc_len,      \* extract_pages_to_memory: len(source_doc)
    requested_pages,     \* extract_pages_to_memory: page_numbers
    returned_streams,    \* what the call of extract_pages_to_memory returned
    extract_fail_at,     \* the request at which that call raised (0: none)
    extract_called,      \* extract_pages_to_memory has returned
    up_chunks,           \* the node list whose images are uploaded
    up_images,           \* upload_images_batch: the input list
    up_state,            \* per input index: "queued", "running", "done", "failed"
    up_completion,       \* input indices in the order their uploads completed
    up_urls,             \* pool.map: status "pending", "raised" or "returned", and
                         \* the URL list it returned
    export_lines,        \* document.export_to_markdown().split("\n") of a result
    export_pages,        \* document.pages of that result, each by its kind
    export_total,        \* total_pages handed to _extract_page_markdown_from_result
    sliced,              \* the page map that call returned
    slice_called,        \* _extract_page_markdown_from_result has returned
    run_pc,              \* position inside DocumentWorker.run
    shutdown,            \* shutdown_handler.shutdown
    polls_without_message,
    msg_content,         \* per queue message: what its content is
    msg_state,           \* per queue message: "absent", "visible", "invisible", "deleted"
    message,             \* the message run received (0: none)
    handled,             \* the calls of _process_message: message, outcome
    loop_error,          \* the worker loop caught an exception
    pre_pc,              \* position inside preprocess
    ingest_state,        \* the source blob's ingest_state tag ("none": no such tag)
    error_tag,           \* the source blob has an error tag
    current_tags,        \* preprocess's copy of the tags: ingest_state, and has it error
    embedding_status,
    nodes_json_state,    \* ingest_state tag of the uploaded nodes JSON ("none": no upload)
    pre_nodes,           \* number of nodes of nodes_doc
    pre_user,            \* the user that extract_username_from_path returned
    pre_log              \* the calls preprocess has completed, and what raised

pipe_vars == <<pc, path_exists, is_pdf, total_pages, easy_result, easy_page_markdown,
               easy_exc, simple_pages, complex_pages, complexity_info, triage_exc,
               complex_results, all_images, hifi_exc, hifi_calls,
               final_page_markdown, merged_markdown, ret, error_log>>

node_vars == <<chunks, file_sha256, user, nodes, nodes_exc, prev_ids, prev_sha, runs>>

store_vars == <<w_pc, w_nodes, w_idx, store_objects, store_refs>>

chunk_vars == <<doc_pages, doc_images, doc_markdown, chunk_size, overlap, chunked>>

extract_vars == <<source_doc_len, requested_pages, returned_streams, extract_fail_at,
                  extract_called>>

upload_vars == <<up_chunks, up_images, up_state, up_completion, up_urls>>

slice_vars == <<export_lines, export_pages, export_total, sliced, slice_called>>

\* variables of the operations that are modelled on their own
run_vars == <<run_pc, shutdown, polls_without_message, msg_content, msg_state, message,
              handled, loop_error>>

tag_vars == <<pre_pc, ingest_state, error_tag, current_tags, embedding_status,
              nodes_json_state, pre_nodes, pre_user, pre_log>>

side_vars == <<slice_vars, run_vars, tag_vars>>

aux_vars == <<chunk_vars, extract_vars, upload_vars, side_vars>>

vars == <<pipe_vars, node_vars, store_vars, aux_vars>>

----------------------------------------------------------------------------
(* Bounds *)

MaxPages == 2      \* total_pages ranges over 0..MaxPages
MaxTables == 2     \* tables (and pictures) of a triaged document model
MaxLines == 2      \* lines of the whole-document markdown
MaxPics == 1       \* pictures of one high-fidelity page result
MaxPipeItems == 1  \* tables (and pictures) of a cheap-pass result in process_document

----------------------------------------------------------------------------
(* Generic helpers *)

Range(s) == {s[i] : i \in 1..Len(s)}

Min(a, b) == IF a < b THEN a ELSE b

Max(a, b) == IF a > b THEN a ELSE b

SeqsUpTo(S, n) == UNION {[1..k -> S] : k \in 0..n}

\* range(n) as a list
PyRange(n) == [i \in 1..n |-> i - 1]

\* "".strip() == "" : every line of the text is blank
IsBlank(md) == \A i \in 1..Len(md) : md[i] = ""

RECURSIVE DropLeadingBlank(_)
DropLeadingBlank(s) ==
    IF s = <<>> THEN <<>>
    ELSE IF Head(s) = "" THEN DropLeadingBlank(Tail(s)) ELSE s

RECURSIVE DropTrailingBlank(_)
DropTrailingBlank(s) ==
    IF s = <<>> THEN <<>>
    ELSE IF s[Len(s)] = "" THEN DropTrailingBlank(SubSeq(s, 1, Len(s) - 1)) ELSE s

\* str.strip() on a text given by its lines
Strip(md) ==
    LET t == DropTrailingBlank(DropLeadingBlank(md))
    IN  IF t = <<>> THEN <<"">> ELSE t

\* "\n".join(parts) for a list of texts
RECURSIVE JoinLines(_)
JoinLines(parts) ==
    IF parts = <<>> THEN <<"">>
    ELSE IF Len(parts) = 1 THEN parts[1]
    ELSE parts[1] \o JoinLines(Tail(parts))

----------------------------------------------------------------------------
(* Constants of processor.py *)

ERROR_FALLBACK_CONTENT == "Error processing page"

PAGE_SEPARATOR == <<"", "---", "">>

----------------------------------------------------------------------------
(* The conversion engine's document model, as far as the code reads it *)

\* One provenance entry: without a page_no attribute, with an integer page_no,
\* or with a page_no that is no integer (arithmetic on it raises).
ProvEntries ==
    {[has_page_no |-> FALSE, is_int |-> TRUE, page_no |-> 0]}
    \cup {[has_page_no |-> TRUE, is_int |-> TRUE, page_no |-> n] : n \in 0..(MaxPages + 1)}
    \cup {[has_page_no |-> TRUE, is_int |-> FALSE, page_no |-> 0]}

\* prov of a table or picture: None/empty, or a list of entries
ProvLists == {<<>>} \cup {<<e>> : e \in ProvEntries}

NoDocResult == [present |-> FALSE, document |-> FALSE, tables |-> <<>>, pictures |-> <<>>]

DocResults(n) ==
    {NoDocResult, [NoDocResult EXCEPT !.present = TRUE]}
    \cup [present : {TRUE}, document : {TRUE},
          tables : SeqsUpTo(ProvLists, n), pictures : SeqsUpTo(ProvLists, n)]

\* Whole-document markdown texts: blank, or lines L1..Lk, or the same with
\* the first line blank
FullMarkdowns ==
    {<<"">>}
    \cup {[i \in 1..k |-> "L" \o ToString(i)] : k \in 1..MaxLines}
    \cup {[i \in 1..k |-> IF i = 1 THEN "" ELSE "L" \o ToString(i)] : k \in 2..MaxLines}

\* What one page of document.pages does on export_to_markdown(): returns a
\* text, returns a blank text (or has no such method), or raises
PageKinds == {"text", "blank", "raises"}

----------------------------------------------------------------------------
(* processor.py helpers *)

\* _create_fallback_page_content that names the 0-based page index
FallbackContentZeroBased(page_nums, error_msg) ==
    [p \in Range(page_nums) |->
        <<"# Page " \o ToString(p), "", "[" \o error_msg \o "]">>]

\* _create_fallback_page_content
_create_fallback_page_content(page_nums, error_msg) ==
    [p \in Range(page_nums) |->
        <<"# Page " \o ToString(p + 1), "", "[" \o error_msg \o "]">>]

\* _get_page_number_from_provenance: the page_no of the first entry that has
\* one, else the default
RECURSIVE _get_page_number_from_provenance(_, _)
_get_page_number_from_provenance(prov_list, default) ==
    IF prov_list = <<>> THEN [is_int |-> TRUE, val |-> default]
    ELSE IF Head(prov_list).has_page_no
         THEN [is_int |-> Head(prov_list).is_int, val |-> Head(prov_list).page_no]
         ELSE _get_page_number_from_provenance(Tail(prov_list), default)

\* lines[start_idx:end_idx] joined by "\n" for page i
PageSlice(lines, i, total) ==
    LET lines_per_page == Max(1, Len(lines) \div total)
        start_idx == i * lines_per_page
        end_idx == Min((i + 1) * lines_per_page, Len(lines))
        part == SubSeq(lines, start_idx + 1, end_idx)
    IN  IF part = <<>> THEN <<"">> ELSE part

\* the text the cheap pass exports for page i itself
EasyPageText(i) == <<"easy_p" \o ToString(i + 1)>>

\* _extract_page_markdown_from_result for a result that has a document:
\* pages is the list of page kinds of document.pages.
\* Returns [raised, md]; raised: an exception leaves the function.
_extract_page_markdown_from_result(has_doc, full_markdown, pages, total, mode_name) ==
    IF ~has_doc
    THEN [raised |-> FALSE,
          md |-> _create_fallback_page_content(
                    PyRange(total), "Error: " \o mode_name \o " processing failed")]
    ELSE IF pages # <<>>
    THEN [raised |-> FALSE,
          md |-> [i \in 0..(Len(pages) - 1) |->
                    LET stub == <<"# Page " \o ToString(i + 1), "",
                                  "[" \o ERROR_FALLBACK_CONTENT \o "]">>
                    IN  IF pages[i + 1] = "raises" THEN stub
                        ELSE IF pages[i + 1] = "text" THEN EasyPageText(i)
                        ELSE IF IsBlank(full_markdown) THEN <<"">>
                        ELSE IF total = 0 THEN stub   \* ZeroDivisionError, caught per page
                        ELSE Strip(PageSlice(full_markdown, i, total))]]
    ELSE IF total = 0
    THEN [raised |-> TRUE, md |-> <<>>]               \* ZeroDivisionError
    ELSE [raised |-> FALSE,
          md |-> [i \in 0..(total - 1) |->
                    LET page_content == PageSlice(full_markdown, i, total)
                    IN  IF IsBlank(page_content) THEN <<"">> ELSE page_content]]

----------------------------------------------------------------------------
(* Complexity triage: analyze_and_triage_pages *)

\* the label upgrade a detected table applies to its page
TableUpgrade(label) ==
    IF label = "simple" THEN "table"
    ELSE IF label = "image" THEN "table+image"
    ELSE label

\* PictureUpgrade without the branch for a page that already has a table
PictureUpgradeNoTableBranch(label) ==
    IF label = "simple" THEN "image" ELSE label

\* the label upgrade a detected picture applies to its page
PictureUpgrade(label) ==
    IF label = "simple" THEN "image"
    ELSE IF label = "table" THEN "table+image"
    ELSE label

\* page_idx = max(0, min(page_num - 1, total_pages - 1))
ClampPageIdx(page_num, total) == Max(0, Min(page_num - 1, total - 1))

\* One of the two scanning loops (kind "table" or "picture") over the provs of
\* the collection.  info is complexity_info as a sequence (page index i is
\* info[i + 1]).  raised: an exception left the loop (a page_no that is no
\* integer, or an index into an empty complexity_info).
RECURSIVE ScanCollection(_, _, _, _)
ScanCollection(provs, info, total, kind) ==
    IF provs = <<>> THEN [raised |-> FALSE, info |-> info]
    ELSE
        LET page_num == _get_page_number_from_provenance(Head(provs), 1)
            page_idx == ClampPageIdx(page_num.val, total)
        IN  IF ~page_num.is_int \/ page_idx >= Len(info)
            THEN [raised |-> TRUE, info |-> info]
            ELSE ScanCollection(
                    Tail(provs),
                    [info EXCEPT ![page_idx + 1] =
                        IF kind = "table" THEN TableUpgrade(@) ELSE PictureUpgrade(@)],
                    total, kind)

\* TriagePartition that routes only table pages to the complex list
TriagePartitionTablesOnly(info, total) ==
    [simple_pages |-> SelectSeq(PyRange(total),
                                LAMBDA p : info[p + 1] \in {"simple", "image"}),
     complex_pages |-> SelectSeq(PyRange(total),
                                 LAMBDA p : info[p + 1] \in {"table", "table+image"})]

\* the triage loop: the page indices whose label is simple, and the others
TriagePartition(info, total) ==
    [simple_pages |-> SelectSeq(PyRange(total), LAMBDA p : info[p + 1] = "simple"),
     complex_pages |-> SelectSeq(PyRange(total), LAMBDA p : info[p + 1] # "simple")]

\* analyze_and_triage_pages that keeps the labels collected before an
\* exception
AnalyzeKeepPartialLabels(docling_result, total) ==
    LET all_simple == [i \in 1..total |-> "simple"]
        scanned ==
            IF ~docling_result.present \/ ~docling_result.document
            THEN [raised |-> FALSE, info |-> all_simple]
            ELSE LET t == ScanCollection(docling_result.tables, all_simple, total, "table")
                 IN  IF t.raised THEN t
                     ELSE ScanCollection(docling_result.pictures, t.info, total, "picture")
        info == scanned.info
    IN  [simple_pages |-> TriagePartition(info, total).simple_pages,
         complex_pages |-> TriagePartition(info, total).complex_pages,
         complexity_info |-> info,
         raised |-> scanned.raised]

\* analyze_and_triage_pages: tables are scanned first, then pictures; an
\* exception in either loop resets every label to simple.
analyze_and_triage_pages(docling_result, total) ==
    LET all_simple == [i \in 1..total |-> "simple"]
        scanned ==
            IF ~docling_result.present \/ ~docling_result.document
            THEN [raised |-> FALSE, info |-> all_simple]
            ELSE LET t == ScanCollection(docling_result.tables, all_simple, total, "table")
                 IN  IF t.raised THEN t
                     ELSE ScanCollection(docling_result.pictures, t.info, total, "picture")
        info == IF scanned.raised THEN all_simple ELSE scanned.info
    IN  [simple_pages |-> TriagePartition(info, total).simple_pages,
         complex_pages |-> TriagePartition(info, total).complex_pages,
         complexity_info |-> info,
         raised |-> scanned.raised]

----------------------------------------------------------------------------
(* Merge: _merge_processing_results and merge_markdown_by_page *)

\* the loop of _merge_processing_results over the list complex_pages
RECURSIVE MergeLoop(_, _, _)
MergeLoop(final, complex_res, pages) ==
    IF pages = <<>> THEN final
    ELSE LET page_num == Head(pages)
             next ==
                IF page_num \in DOMAIN complex_res
                THEN [p \in DOMAIN final \cup {page_num} |->
                        IF p = page_num THEN complex_res[page_num] ELSE final[p]]
                ELSE final
         IN  MergeLoop(next, complex_res, Tail(pages))

\* _merge_processing_results that takes every entry of the complex-pass map
MergeAllComplexResults(easy_results, complex_res, pages) ==
    [p \in DOMAIN easy_results \cup DOMAIN complex_res |->
        IF p \in DOMAIN complex_res THEN complex_res[p] ELSE easy_results[p]]

_merge_processing_results(easy_results, complex_res, pages) ==
    MergeLoop(easy_results, complex_res, pages)

\* the list merged_content of merge_markdown_by_page, pages page_num..total-1
RECURSIVE MergedContent(_, _, _)
MergedContent(page_markdown, page_num, total) ==
    IF page_num >= total THEN <<>>
    ELSE LET rest == MergedContent(page_markdown, page_num + 1, total)
         IN  IF page_num \in DOMAIN page_markdown /\ ~IsBlank(page_markdown[page_num])
             THEN <<Strip(page_markdown[page_num]), PAGE_SEPARATOR>> \o rest
             ELSE rest

merge_markdown_by_page(page_markdown, total) ==
    Strip(JoinLines(MergedContent(page_markdown, 0, total)))

----------------------------------------------------------------------------
(* High-fidelity pass: process_complex_pages and its helpers *)

\* A picture of a high-fidelity page result: its prov and whether
\* _convert_image_to_base64 obtains an image from it
HifiPictures ==
    [prov : {<<>>, <<[has_page_no |-> TRUE, is_int |-> TRUE, page_no |-> 1]>>},
     convertible : {TRUE}]
    \cup {[prov |-> <<>>, convertible |-> FALSE]}

\* One element of convert_all's result list: no document, or a document with
\* a blank or non-blank markdown export and its pictures
HifiResults ==
    {[document |-> FALSE, blank |-> TRUE, pictures |-> <<>>]}
    \cup [document : {TRUE}, blank : BOOLEAN, pictures : SeqsUpTo(HifiPictures, MaxPics)]

\* the text the high-fidelity pass exports for page index p
HifiPageText(p) == <<"hifi_p" \o ToString(p + 1)>>

\* _create_image_metadata
_create_image_metadata(page_num, image_idx) ==
    [image_id |-> "image_" \o ToString(image_idx), page_number |-> page_num,
     format |-> "PNG"]

\* _extract_single_image: the list holding the image, or the empty list for None
_extract_single_image(picture, page_offset, img_idx) ==
    LET pn == _get_page_number_from_provenance(picture.prov, page_offset)
        page_num == IF picture.prov # <<>> THEN pn.val + page_offset - 1 ELSE page_offset
    IN  IF picture.prov # <<>> /\ ~pn.is_int THEN <<>>      \* TypeError, caught
        ELSE IF picture.convertible
        THEN <<_create_image_metadata(page_num, img_idx)>>
        ELSE <<>>

\* the loop of extract_images_from_result over document.pictures
RECURSIVE ExtractImagesLoop(_, _, _)
ExtractImagesLoop(pictures, page_offset, images) ==
    IF pictures = <<>> THEN images
    ELSE ExtractImagesLoop(
            Tail(pictures), page_offset,
            images \o _extract_single_image(Head(pictures), page_offset, Len(images) + 1))

extract_images_from_result(result, page_offset) ==
    IF ~result.document THEN <<>>
    ELSE ExtractImagesLoop(result.pictures, page_offset, <<>>)

\* one (original index, stream) pair of extract_pages_to_memory: the stream
\* is named page_<index + 1>.pdf and holds the one source page
PageStream(page_num) ==
    [original |-> page_num,
     stream |-> [name |-> page_num + 1, source_page |-> page_num]]

\* the body of extract_pages_to_memory from the k-th requested page on.
\* fail_at = k: an exception is raised after k-1 requests were handled
\* (k = 1 includes fitz.open, k past the last request is source_doc.close);
\* fail_at = 0: nothing raises.
RECURSIVE ExtractPagesLoop(_, _, _, _, _)
ExtractPagesLoop(src_len, rest, k, fail_at, acc) ==
    IF fail_at = k THEN [raised |-> TRUE, page_streams |-> acc]
    ELSE IF rest = <<>> THEN [raised |-> FALSE, page_streams |-> acc]
    ELSE ExtractPagesLoop(src_len, Tail(rest), k + 1, fail_at,
                          acc \o (IF Head(rest) < src_len THEN <<PageStream(Head(rest))>>
                                                         ELSE <<>>))

\* extract_pages_to_memory that returns the streams built before an exception
ExtractPagesKeepPartial(src_len, page_numbers, fail_at) ==
    ExtractPagesLoop(src_len, page_numbers, 1, fail_at, <<>>).page_streams

\* extract_pages_to_memory: a pair for each requested index that exists in
\* the source, in request order; [] when anything raised
extract_pages_to_memory(src_len, page_numbers, fail_at) ==
    LET r == ExtractPagesLoop(src_len, page_numbers, 1, fail_at, <<>>)
    IN  IF r.raised THEN <<>> ELSE r.page_streams

\* the loop of process_complex_pages that maps results back to page numbers
RECURSIVE MapResultsLoop(_, _, _, _, _)
MapResultsLoop(page_streams, conv_results, i, page_markdown, images) ==
    IF i > Len(page_streams) THEN [md |-> page_markdown, images |-> images]
    ELSE
        LET original_page_num == page_streams[i].original
            has_doc == i <= Len(conv_results) /\ conv_results[i].document
            text == IF has_doc
                    THEN (IF conv_results[i].blank THEN <<"">>
                          ELSE HifiPageText(original_page_num))
                    ELSE <<"# Page " \o ToString(original_page_num + 1), "",
                           ERROR_FALLBACK_CONTENT, "">>
            new_md == [p \in DOMAIN page_markdown \cup {original_page_num} |->
                        IF p = original_page_num THEN text ELSE page_markdown[p]]
            new_images ==
                IF has_doc
                THEN images \o extract_images_from_result(conv_results[i],
                                                          original_page_num + 1)
                ELSE images
        IN  MapResultsLoop(page_streams, conv_results, i + 1, new_md, new_images)

\* process_complex_pages.  raise_at: "none", "create" (the converter cannot be
\* created) or "convert" (convert_all, or a later export, raises).
\* calls: the stream lists handed to the high-fidelity conversion, each
\* stream given by the page index it holds.
process_complex_pages(src_len, page_numbers, fail_at, raise_at, conv_results) ==
    LET page_streams == extract_pages_to_memory(src_len, page_numbers, fail_at)
        streams == [i \in 1..Len(page_streams) |-> page_streams[i].stream.source_page]
        mapped == MapResultsLoop(page_streams, conv_results, 1, <<>>, <<>>)
    IN  IF page_numbers = <<>>
        THEN [md |-> <<>>, images |-> <<>>, calls |-> <<>>, raised |-> FALSE,
              logged |-> {}]
        ELSE IF page_streams = <<>>
        THEN [md |-> _create_fallback_page_content(page_numbers,
                                                   "Error: Failed to extract page"),
              images |-> <<>>, calls |-> <<>>, raised |-> FALSE,
              logged |-> IF fail_at # 0 THEN {"Error extracting pages to memory"}
                                          ELSE {}]
        ELSE IF raise_at # "none"
        THEN [md |-> _create_fallback_page_content(page_numbers,
                                                   "Error processing page: boom"),
              images |-> <<>>,
              calls |-> IF raise_at = "convert" THEN <<streams>> ELSE <<>>,
              raised |-> TRUE, logged |-> {"Enhanced processing"}]
        ELSE [md |-> mapped.md, images |-> mapped.images,
              calls |-> <<streams>>, raised |-> FALSE, logged |-> {}]

----------------------------------------------------------------------------
(* process_document as a state machine; the engine's and the PDF reader's
   behaviour is chosen at each step *)

\* values of the pipeline variables before process_document assigns them
EasyUnset ==
    /\ total_pages = 0
    /\ easy_result = NoDocResult
    /\ easy_page_markdown = <<>>
    /\ easy_exc = FALSE

TriageUnset ==
    /\ simple_pages = <<>>
    /\ complex_pages = <<>>
    /\ complexity_info = <<>>
    /\ triage_exc = FALSE

HifiUnset ==
    /\ complex_results = <<>>
    /\ all_images = <<>>
    /\ hifi_exc = FALSE
    /\ hifi_calls = <<>>

MergeUnset ==
    /\ final_page_markdown = <<>>
    /\ merged_markdown = <<"">>
    /\ ret = "pending"
    /\ error_log = {}

NodesUnset ==
    /\ chunks = <<>>
    /\ file_sha256 = <<>>
    /\ user = ""
    /\ nodes = <<>>
    /\ nodes_exc = FALSE
    /\ prev_ids = <<>>
    /\ prev_sha = <<>>
    /\ runs = 0

StoreUnset ==
    /\ w_pc = <<>>
    /\ w_nodes = <<>>
    /\ w_idx = <<>>
    /\ store_objects = {}
    /\ store_refs = EmptyBag

ChunkerUnset ==
    /\ doc_pages = <<>>
    /\ doc_markdown = <<>>
    /\ doc_images = <<>>
    /\ chunk_size = 0
    /\ overlap = 0
    /\ chunked = FALSE

ExtractUnset ==
    /\ source_doc_len = 0
    /\ requested_pages = <<>>
    /\ returned_streams = <<>>
    /\ extract_fail_at = 0
    /\ extract_called = FALSE

UploadUnset ==
    /\ up_chunks = <<>>
    /\ up_images = <<>>
    /\ up_state = <<>>
    /\ up_completion = <<>>
    /\ up_urls = [status |-> "pending", urls |-> <<>>]

SliceUnset ==
    /\ export_lines = <<>>
    /\ export_pages = <<>>
    /\ export_total = 0
    /\ sliced = <<>>
    /\ slice_called = FALSE

RunUnset ==
    /\ run_pc = "idle"
    /\ shutdown = FALSE
    /\ polls_without_message = 0
    /\ msg_content = <<>>
    /\ msg_state = <<>>
    /\ message = 0
    /\ handled = <<>>
    /\ loop_error = FALSE

TagUnset ==
    /\ pre_pc = "idle"
    /\ ingest_state = "none"
    /\ error_tag = FALSE
    /\ current_tags = [ingest_state |-> "none", error |-> FALSE]
    /\ embedding_status = "unset"
    /\ nodes_json_state = "none"
    /\ pre_nodes = 0
    /\ pre_user = ""
    /\ pre_log = <<>>

SideUnset == SliceUnset /\ RunUnset /\ TagUnset

AuxUnset == ChunkerUnset /\ ExtractUnset /\ UploadUnset /\ SideUnset

Init ==
    /\ pc = "start"
    /\ path_exists \in BOOLEAN
    /\ is_pdf \in BOOLEAN
    /\ EasyUnset /\ TriageUnset /\ HifiUnset /\ MergeUnset
    /\ NodesUnset /\ StoreUnset /\ AuxUnset

\* the existence check and the routing on the file type
Start ==
    /\ pc = "start"
    /\ IF ~path_exists
       THEN pc' = "done" /\ ret' = "None"
       ELSE pc' = (IF is_pdf THEN "easy" ELSE "nonpdf") /\ ret' = ret
    /\ UNCHANGED <<node_vars, store_vars, aux_vars>>
    /\ UNCHANGED <<path_exists, is_pdf, total_pages, easy_result, easy_page_markdown,
                   easy_exc, simple_pages, complex_pages, complexity_info, triage_exc,
                   complex_results, all_images, hifi_exc, hifi_calls,
                   final_page_markdown, merged_markdown, error_log>>

\* process_document_easy_mode: fitz.open or the creation of the converter
\* raises outside its try (caught by process_document, which returns None);
\* everything after that is caught inside and replaced by fallback stubs.
EasyModeAborts ==
    /\ pc = "easy"
    /\ pc' = "done"
    /\ ret' = "None"
    /\ error_log' = error_log \cup {"Error in processing"}
    /\ UNCHANGED <<node_vars, store_vars, aux_vars>>
    /\ UNCHANGED <<path_exists, is_pdf, total_pages, easy_result, easy_page_markdown,
                   easy_exc, simple_pages, complex_pages, complexity_info, triage_exc,
                   complex_results, all_images, hifi_exc, hifi_calls,
                   final_page_markdown, merged_markdown>>

\* EasyModeRaises without the try/except of process_document_easy_mode: the
\* exception reaches process_document's handler
EasyModeRaisesUncaught ==
    /\ pc = "easy"
    /\ pc' = "done"
    /\ ret' = "None"
    /\ easy_exc' = TRUE
    /\ error_log' = error_log \cup {"Error in processing"}
    /\ UNCHANGED <<node_vars, store_vars, aux_vars>>
    /\ UNCHANGED <<path_exists, is_pdf, total_pages, easy_result, easy_page_markdown,
                   simple_pages, complex_pages, complexity_info, triage_exc,
                   complex_results, all_images, hifi_exc, hifi_calls,
                   final_page_markdown, merged_markdown>>

EasyModeRaises ==
    /\ pc = "easy"
    /\ \E tp \in 0..MaxPages :
        /\ total_pages' = tp
        /\ easy_result' = NoDocResult
        /\ easy_page_markdown' =
              _create_fallback_page_content(PyRange(tp), "Error: Easy mode processing failed")
    /\ easy_exc' = TRUE
    /\ error_log' = error_log \cup {"Document processing"}
    /\ pc' = "triage"
    /\ UNCHANGED <<node_vars, store_vars, aux_vars>>
    /\ UNCHANGED <<path_exists, is_pdf, simple_pages, complex_pages, complexity_info,
                   triage_exc, complex_results, all_images, hifi_exc, hifi_calls,
                   final_page_markdown, merged_markdown, ret>>

EasyModeConverts ==
    /\ pc = "easy"
    /\ \E tp \in 0..MaxPages, result \in DocResults(MaxPipeItems),
          full \in FullMarkdowns, pages \in SeqsUpTo(PageKinds, MaxPages) :
        LET r == _extract_page_markdown_from_result(result.present /\ result.document,
                                                    full, pages, tp, "easy")
        IN  /\ total_pages' = tp
            /\ IF r.raised
               THEN /\ easy_result' = NoDocResult
                    /\ easy_page_markdown' =
                          _create_fallback_page_content(
                              PyRange(tp), "Error: Easy mode processing failed")
                    /\ easy_exc' = TRUE
                    /\ error_log' = error_log \cup {"Document processing"}
               ELSE /\ easy_result' = result
                    /\ easy_page_markdown' = r.md
                    /\ easy_exc' = FALSE
                    /\ error_log' = error_log
    /\ pc' = "triage"
    /\ UNCHANGED <<node_vars, store_vars, aux_vars>>
    /\ UNCHANGED <<path_exists, is_pdf, simple_pages, complex_pages, complexity_info,
                   triage_exc, complex_results, all_images, hifi_exc, hifi_calls,
                   final_page_markdown, merged_markdown, ret>>

\* Step 2: analyze_and_triage_pages on the cheap-pass result
Triage ==
    /\ pc = "triage"
    /\ LET t == analyze_and_triage_pages(easy_result, total_pages)
       IN  /\ simple_pages' = t.simple_pages
           /\ complex_pages' = t.complex_pages
           /\ complexity_info' = t.complexity_info
           /\ triage_exc' = t.raised
           /\ error_log' = IF t.raised THEN error_log \cup {"Content analysis"}
                                       ELSE error_log
    /\ pc' = "complex"
    /\ UNCHANGED <<node_vars, store_vars, aux_vars>>
    /\ UNCHANGED <<path_exists, is_pdf, total_pages, easy_result, easy_page_markdown,
                   easy_exc, complex_results, all_images, hifi_exc, hifi_calls,
                   final_page_markdown, merged_markdown, ret>>

\* Step 3: process_complex_pages, called only for a non-empty complex_pages
ComplexPass ==
    /\ pc = "complex"
    /\ IF complex_pages = <<>>
       THEN /\ complex_results' = <<>>
            /\ all_images' = <<>>
            /\ hifi_exc' = FALSE
            /\ hifi_calls' = hifi_calls
            /\ error_log' = error_log
       ELSE \E fail_at \in 0..(Len(complex_pages) + 1),
               raise_at \in {"none", "create", "convert"},
               n \in 0..Len(complex_pages) :
            \E conv_results \in [1..n -> HifiResults] :
               LET c == process_complex_pages(total_pages, complex_pages, fail_at,
                                              raise_at, conv_results)
               IN  /\ complex_results' = c.md
                   /\ all_images' = c.images
                   /\ hifi_exc' = c.raised
                   /\ hifi_calls' = hifi_calls \o c.calls
                   /\ error_log' = error_log \cup c.logged
    /\ pc' = "merge"
    /\ UNCHANGED <<node_vars, store_vars, aux_vars>>
    /\ UNCHANGED <<path_exists, is_pdf, total_pages, easy_result, easy_page_markdown,
                   easy_exc, simple_pages, complex_pages, complexity_info, triage_exc,
                   final_page_markdown, merged_markdown, ret>>

\* Step 4: _merge_processing_results and merge_markdown_by_page, then the
\* result object is returned
Merge ==
    /\ pc = "merge"
    /\ LET final == _merge_processing_results(easy_page_markdown, complex_results,
                                              complex_pages)
       IN  /\ final_page_markdown' = final
           /\ merged_markdown' = merge_markdown_by_page(final, total_pages)
    /\ pc' = "done"
    /\ ret' = "result"
    /\ UNCHANGED <<node_vars, store_vars, aux_vars>>
    /\ UNCHANGED <<path_exists, is_pdf, total_pages, easy_result, easy_page_markdown,
                   easy_exc, simple_pages, complex_pages, complexity_info, triage_exc,
                   complex_results, all_images, hifi_exc, hifi_calls, error_log>>

\* process_non_pdf_document: None when the conversion raises or yields no
\* document, else a result object built from the single default-mode conversion
NonPdf ==
    /\ pc = "nonpdf"
    /\ \E outcome \in {"raises", "no_document", "document"} :
        IF outcome = "document"
        THEN \E result \in (HifiResults \ {r \in HifiResults : ~r.document}) :
                /\ merged_markdown' = (IF result.blank THEN <<"">> ELSE <<"doc_text">>)
                /\ all_images' = extract_images_from_result(result, 1)
                /\ ret' = "result"
                /\ error_log' = error_log
        ELSE /\ ret' = "None"
             /\ error_log' = error_log \cup
                    {IF outcome = "raises" THEN "Error processing non-PDF document"
                     ELSE "Document processing failed - no content returned"}
             /\ UNCHANGED <<merged_markdown, all_images>>
    /\ pc' = "done"
    /\ UNCHANGED <<node_vars, store_vars, aux_vars>>
    /\ UNCHANGED <<path_exists, is_pdf, total_pages, easy_result, easy_page_markdown,
                   easy_exc, simple_pages, complex_pages, complexity_info, triage_exc,
                   complex_results, hifi_exc, hifi_calls, final_page_markdown>>

Next ==
    \/ Start
    \/ EasyModeAborts
    \/ EasyModeRaises
    \/ EasyModeConverts
    \/ Triage
    \/ ComplexPass
    \/ Merge
    \/ NonPdf

Spec == Init /\ [][Next]_vars

----------------------------------------------------------------------------
(* Triage alone: analyze_and_triage_pages on any document model *)

InitTriage ==
    /\ pc = "triage"
    /\ path_exists = TRUE
    /\ is_pdf = TRUE
    /\ total_pages \in 0..MaxPages
    /\ easy_result \in DocResults(MaxTables)
    /\ easy_page_markdown = <<>>
    /\ easy_exc = FALSE
    /\ TriageUnset /\ HifiUnset /\ MergeUnset
    /\ NodesUnset /\ StoreUnset /\ AuxUnset

NextTriage == Triage

SpecTriage == InitTriage /\ [][NextTriage]_vars

----------------------------------------------------------------------------
(* Merge alone: _merge_processing_results on any two page maps and page list *)

PartialMaps(K, V) == UNION {[D -> V] : D \in SUBSET K}

InitMerge ==
    /\ pc = "merge"
    /\ path_exists = TRUE
    /\ is_pdf = TRUE
    /\ total_pages = MaxPages
    /\ easy_result = NoDocResult
    /\ easy_exc = FALSE
    /\ easy_page_markdown \in PartialMaps(0..MaxPages, {<<"easy">>, <<"">>})
    /\ complex_results \in PartialMaps(0..MaxPages, {<<"hifi">>, <<"">>})
    /\ complex_pages \in SeqsUpTo(0..MaxPages, MaxPages)
    /\ simple_pages = <<>>
    /\ complexity_info = <<>>
    /\ triage_exc = FALSE
    /\ all_images = <<>>
    /\ hifi_exc = FALSE
    /\ hifi_calls = <<>>
    /\ MergeUnset
    /\ NodesUnset /\ StoreUnset /\ AuxUnset

NextMerge == Merge

SpecMerge == InitMerge /\ [][NextMerge]_vars

----------------------------------------------------------------------------
(* Node builder: extract_nodes (chunker.py).  A node id is the sequence of
   the characters of the id string. *)

MaxChunks == 2        \* chunks of a chunk list
MaxChunkImages == 2   \* images attached to one chunk
MaxRuns == 2          \* extract_nodes runs on one chunk list

Digits == <<"0", "1", "2", "3", "4", "5", "6", "7", "8", "9">>

\* the decimal digits of n >= 0
RECURSIVE Dec(_)
Dec(n) == IF n < 10 THEN <<Digits[n + 1]>> ELSE Dec(n \div 10) \o <<Digits[(n % 10) + 1]>>

\* format(n, "02d") for n >= 0: zero-padded to at least two digits
Pad2(n) == IF n < 10 THEN <<"0">> \o Dec(n) ELSE Dec(n)

\* sha4: the last 4 characters of the hash, "0000" if it is None or shorter
Sha4FirstFour(h) ==
    IF Len(h) >= 4 THEN SubSeq(h, 1, 4) ELSE <<"0", "0", "0", "0">>

Sha4(h) ==
    IF Len(h) >= 4 THEN SubSeq(h, Len(h) - 3, Len(h)) ELSE <<"0", "0", "0", "0">>

\* f"txt_{sha4}_p{source_page:02d}_c{text_counter:02d}"
TextNodeId(sha4, source_page, text_counter) ==
    <<"t", "x", "t", "_">> \o sha4 \o <<"_", "p">> \o Pad2(source_page)
        \o <<"_", "c">> \o Pad2(text_counter)

\* f"img_{sha4}_p{image_page:02d}_i{n:02d}"
ImageNodeId(sha4, image_page, n) ==
    <<"i", "m", "g", "_">> \o sha4 \o <<"_", "p">> \o Pad2(image_page)
        \o <<"_", "i">> \o Pad2(n)

\* image_refs computed from the position in the chunk alone
ChunkImageRefsFromZero(sha4, chunk_images, chunk_image_start) ==
    [i \in 1..Len(chunk_images) |->
        ImageNodeId(sha4, chunk_images[i].page_number, i)]

\* image_refs of a chunk: the pre-calculated ids of its image nodes
ChunkImageRefs(sha4, chunk_images, chunk_image_start) ==
    [i \in 1..Len(chunk_images) |->
        ImageNodeId(sha4, chunk_images[i].page_number, chunk_image_start + (i - 1))]

\* the text node of a chunk; metadata carries page only for source_page > 0
\* (file_name, char_start, char_len, is_complex and has_tables are copied
\* from the chunk and left out here)
TextNode(node_id, chunk, image_refs) ==
    [id_ |-> node_id,
     type |-> "text",
     metadata |-> IF chunk.has_page /\ chunk.source_page > 0
                  THEN [image_refs |-> image_refs, page |-> chunk.source_page]
                  ELSE [image_refs |-> image_refs],
     relationships |-> <<>>,
     embedding |-> "null"]

\* an image node whose parent pointer is its own id
ImageNodeSelfParent(image_node_id, image, node_id) ==
    [id_ |-> image_node_id,
     type |-> "image",
     metadata |-> [page |-> image.page_number],
     relationships |-> ("1" :> [node_id |-> image_node_id, node_type |-> "1"]),
     embedding |-> "null"]

\* the image node of an image attached to the chunk whose text node is node_id
ImageNode(image_node_id, image, node_id) ==
    [id_ |-> image_node_id,
     type |-> "image",
     metadata |-> [page |-> image.page_number],
     relationships |-> ("1" :> [node_id |-> node_id, node_type |-> "1"]),
     embedding |-> "null"]

\* the image nodes of one chunk, numbered from 1 within the chunk
ImageNodesPerChunkCounter(sha4, chunk_images, image_counter, node_id) ==
    [i \in 1..Len(chunk_images) |->
        ImageNode(ImageNodeId(sha4, chunk_images[i].page_number, i),
                  chunk_images[i], node_id)]

\* the second inner loop of extract_nodes: the image nodes of one chunk
RECURSIVE ImageNodesLoop(_, _, _, _)
ImageNodesLoop(sha4, chunk_images, image_counter, node_id) ==
    IF chunk_images = <<>> THEN <<>>
    ELSE LET image == Head(chunk_images)
         IN  <<ImageNode(ImageNodeId(sha4, image.page_number, image_counter + 1),
                         image, node_id)>>
             \o ImageNodesLoop(sha4, Tail(chunk_images), image_counter + 1, node_id)

\* extract_nodes' chunk loop with a text counter that restarts on every page
RECURSIVE ExtractNodesLoopPerPageCounter(_, _, _, _, _)
ExtractNodesLoopPerPageCounter(rest, sha4, text_counter, image_counter, acc) ==
    IF rest = <<>> THEN [raised |-> FALSE, nodes |-> acc]
    ELSE
        LET chunk == Head(rest)
            earlier == {i \in 1..Len(acc) : /\ acc[i].type = "text"
                                            /\ acc[i].metadata.page = chunk.source_page}
            node_id == TextNodeId(sha4, chunk.source_page, Cardinality(earlier) + 1)
            image_refs == ChunkImageRefs(sha4, chunk.images, image_counter + 1)
        IN  IF ~chunk.has_page THEN [raised |-> TRUE, nodes |-> <<>>]
            ELSE ExtractNodesLoopPerPageCounter(
                    Tail(rest), sha4, text_counter + 1,
                    image_counter + Len(chunk.images),
                    acc \o <<TextNode(node_id, chunk, image_refs)>>
                        \o ImageNodesLoop(sha4, chunk.images, image_counter, node_id))

\* the loop of extract_nodes over the chunks.  A chunk whose source_page is
\* None makes the id format raise (TypeError).
RECURSIVE ExtractNodesLoop(_, _, _, _, _)
ExtractNodesLoop(rest, sha4, text_counter, image_counter, acc) ==
    IF rest = <<>> THEN [raised |-> FALSE, nodes |-> acc]
    ELSE
        LET chunk == Head(rest)
            node_id == TextNodeId(sha4, chunk.source_page, text_counter + 1)
            image_refs == ChunkImageRefs(sha4, chunk.images, image_counter + 1)
        IN  IF ~chunk.has_page THEN [raised |-> TRUE, nodes |-> <<>>]
            ELSE ExtractNodesLoop(
                    Tail(rest), sha4, text_counter + 1,
                    image_counter + Len(chunk.images),
                    acc \o <<TextNode(node_id, chunk, image_refs)>>
                        \o ImageNodesLoop(sha4, chunk.images, image_counter, node_id))

\* extract_nodes: the nodes document (source_mime left out)
extract_nodes(chunk_list, sha, usr) ==
    LET r == ExtractNodesLoop(chunk_list, Sha4(sha), 0, 0, <<>>)
    IN  [raised |-> r.raised,
         file_sha256 |-> sha,
         user |-> usr,
         total_nodes |-> Len(r.nodes),
         nodes |-> r.nodes]

\* Inputs of the node builder
ChunkPages == {1, 2}

ChunkImagePool ==
    {[image_id |-> "image_1", page_number |-> 1],
     [image_id |-> "image_1", page_number |-> 2]}

\* page-aware chunks, and the chunk without a page (Chunk's default)
PagedChunks == [has_page : {TRUE}, source_page : ChunkPages,
                images : SeqsUpTo(ChunkImagePool, MaxChunkImages)]

ChunkSet == PagedChunks \cup {[has_page |-> FALSE, source_page |-> 0, images |-> <<>>]}

\* content hashes: two that share their last 4 characters, one that does
\* not, one shorter than 4 characters, and None
FileHashes ==
    {<<"1", "a", "b", "c", "d">>, <<"2", "a", "b", "c", "d">>,
     <<"1", "a", "b", "c", "e">>, <<"a", "b", "c">>, <<>>}

Users == {"alice", "bob"}

NodeIds(node_list) == [i \in 1..Len(node_list) |-> node_list[i].id_]

PipeIdle ==
    /\ pc = "idle"
    /\ path_exists = TRUE
    /\ is_pdf = TRUE
    /\ EasyUnset /\ TriageUnset /\ HifiUnset /\ MergeUnset

InitNodes ==
    /\ PipeIdle
    /\ StoreUnset /\ AuxUnset
    /\ chunks \in SeqsUpTo(ChunkSet, MaxChunks)
    /\ file_sha256 = <<>>
    /\ user = ""
    /\ nodes = <<>>
    /\ nodes_exc = FALSE
    /\ prev_ids = <<>>
    /\ prev_sha = <<>>
    /\ runs = 0

\* one run of extract_nodes on the chunk list, for any hash and user
ExtractNodes ==
    /\ runs < MaxRuns
    /\ \E sha \in FileHashes, usr \in Users :
        LET doc == extract_nodes(chunks, sha, usr)
        IN  /\ nodes' = doc.nodes
            /\ nodes_exc' = doc.raised
            /\ file_sha256' = sha
            /\ user' = usr
    /\ prev_ids' = NodeIds(nodes)
    /\ prev_sha' = file_sha256
    /\ runs' = runs + 1
    /\ UNCHANGED <<chunks, pipe_vars, store_vars, aux_vars>>

NextNodes == ExtractNodes

SpecNodes == InitNodes /\ [][NextNodes]_vars

----------------------------------------------------------------------------
(* Node builder on documents of a hundred pages: the chunk list of a
   page-aware chunking, text chunks only *)

MaxOrderChunks == 3   \* chunks of such a chunk list

\* source_page values on both sides of the 2-digit padding
OrderPages == {1, 2, 99, 100}

InitOrder ==
    /\ PipeIdle
    /\ StoreUnset /\ AuxUnset
    /\ chunks \in SeqsUpTo([has_page : {TRUE}, source_page : OrderPages, images : {<<>>}],
                           MaxOrderChunks)
    /\ file_sha256 = <<>>
    /\ user = ""
    /\ nodes = <<>>
    /\ nodes_exc = FALSE
    /\ prev_ids = <<>>
    /\ prev_sha = <<>>
    /\ runs = 0

NextOrder == ExtractNodes

SpecOrder == InitOrder /\ [][NextOrder]_vars

----------------------------------------------------------------------------
(* Chunker: DocumentChunker (chunker.py).  A text is the sequence of its
   characters; a chunk is the record of the Chunk fields the nodes are built
   from (of its metadata: images and primary_image). *)

\* str.isspace on the white space that occurs in the texts
IsSpace(c) == c \in {" ", "\n"}

RECURSIVE LStrip(_)
LStrip(s) == IF s # <<>> /\ IsSpace(Head(s)) THEN LStrip(Tail(s)) ELSE s

RECURSIVE RStrip(_)
RStrip(s) ==
    IF s # <<>> /\ IsSpace(s[Len(s)]) THEN RStrip(SubSeq(s, 1, Len(s) - 1)) ELSE s

\* str.strip()
StripText(s) == RStrip(LStrip(s))

\* the first index of s that holds a character of the set S; Len(s) + 1 if none
FirstIndex(s, S) ==
    IF \E i \in 1..Len(s) : s[i] \in S
    THEN CHOOSE i \in 1..Len(s) : s[i] \in S /\ \A j \in 1..(i - 1) : s[j] \notin S
    ELSE Len(s) + 1

\* str.split(c) for a separator of one character
RECURSIVE SplitOnChar(_, _)
SplitOnChar(s, c) ==
    LET i == FirstIndex(s, {c})
    IN  IF i > Len(s) THEN <<s>>
        ELSE <<SubSeq(s, 1, i - 1)>> \o SplitOnChar(SubSeq(s, i + 1, Len(s)), c)

\* str.split(): the words between runs of white space
RECURSIVE Words(_)
Words(s) ==
    LET t == LStrip(s)
        e == FirstIndex(t, {" ", "\n"})
    IN  IF t = <<>> THEN <<>>
        ELSE <<SubSeq(t, 1, e - 1)>> \o Words(SubSeq(t, e, Len(t)))

\* str.lower() on the letters that occur in the texts
LowerText(s) ==
    [i \in 1..Len(s) |->
        IF s[i] = "A" THEN "a" ELSE IF s[i] = "B" THEN "b"
        ELSE IF s[i] = "C" THEN "c" ELSE s[i]]

\* needle in hay
Contains(hay, needle) ==
    \E i \in 0..(Len(hay) - Len(needle)) : SubSeq(hay, i + 1, i + Len(needle)) = needle

\* the list of the stripped, non-empty elements of a list of texts
StripNonEmpty(parts) ==
    SelectSeq([i \in 1..Len(parts) |-> StripText(parts[i])], LAMBDA x : x # <<>>)

\* the literal the conversion engine leaves in the markdown for a picture
IMAGE_MARKER == <<"<", "!", "-", "-", " ", "i", "m", "a", "g", "e", " ", "-", "-", ">">>

\* len(re.findall(r"<!-- image -->", text))
RECURSIVE CountMarkers(_)
CountMarkers(s) ==
    LET m == Len(IMAGE_MARKER)
        starts == {i \in 1..(Len(s) - m + 1) : SubSeq(s, i, i + m - 1) = IMAGE_MARKER}
        first == CHOOSE i \in starts : \A j \in starts : i <= j
    IN  IF starts = {} THEN 0
        ELSE 1 + CountMarkers(SubSeq(s, first + m, Len(s)))

\* list(image_lookup.values()) for the dict built from the images by
\* image_id: one entry per id at the place of its first image, holding its
\* last image
ImageLookupValues(image_list) ==
    LET firsts == SelectSeq([i \in 1..Len(image_list) |-> i],
                     LAMBDA i : \A j \in 1..(i - 1) :
                                   image_list[j].image_id # image_list[i].image_id)
        last(i) == CHOOSE j \in 1..Len(image_list) :
                      /\ image_list[j].image_id = image_list[i].image_id
                      /\ \A k \in (j + 1)..Len(image_list) :
                            image_list[k].image_id # image_list[i].image_id
    IN  [n \in 1..Len(firsts) |-> image_list[last(firsts[n])]]

\* the words of a caption or OCR text longer than min_len of which at least
\* tenths/10 occur in the chunk; more than min_words such words are required
WordsMatch(text, chunk_lower, min_len, min_words, tenths) ==
    LET words == SelectSeq(Words(LowerText(text)), LAMBDA w : Len(w) > min_len)
        matching == Cardinality({i \in 1..Len(words) : Contains(chunk_lower, words[i])})
    IN  Len(words) > min_words /\ 10 * matching >= tenths * Len(words)

\* the similarity loop of _extract_images_for_chunk: the first image whose
\* caption (longer than 10 characters) or else OCR text (longer than 20)
\* matches the chunk
RECURSIVE SimilarityLoop(_, _)
SimilarityLoop(values, chunk_lower) ==
    IF values = <<>> THEN <<>>
    ELSE LET image_data == Head(values)
             caption == StripText(image_data.caption)
             ocr_text == StripText(image_data.ocr_text)
         IN  IF caption # <<>> /\ Len(caption) > 10
             THEN IF WordsMatch(caption, chunk_lower, 3, 2, 7) THEN <<image_data>>
                  ELSE SimilarityLoop(Tail(values), chunk_lower)
             ELSE IF ocr_text # <<>> /\ Len(ocr_text) > 20
             THEN IF WordsMatch(ocr_text, chunk_lower, 4, 3, 8) THEN <<image_data>>
                  ELSE SimilarityLoop(Tail(values), chunk_lower)
             ELSE SimilarityLoop(Tail(values), chunk_lower)

\* _extract_images_for_chunk; values is list(image_lookup.values())
_extract_images_for_chunk(text_chunk, values) ==
    LET markers == CountMarkers(text_chunk)
    IN  IF markers > 0 THEN SubSeq(values, 1, Min(markers, Len(values)))
        ELSE SimilarityLoop(values, LowerText(text_chunk))

\* the index after the run of sentence punctuation that starts at index i
RECURSIVE RunEnd(_, _)
RunEnd(s, i) ==
    IF i <= Len(s) /\ s[i] \in {".", "!", "?"} THEN RunEnd(s, i + 1) ELSE i

\* re.split(r"[.!?]+(?:\s|$)", s) from index i on, cur being the piece read
\* so far: a run of punctuation separates when white space or the end follows
RECURSIVE ReSplitSentences(_, _, _)
ReSplitSentences(s, i, cur) ==
    LET marks == {k \in i..Len(s) : s[k] \in {".", "!", "?"}}
        k == CHOOSE x \in marks : \A y \in marks : x <= y
        piece == cur \o SubSeq(s, i, k - 1)
        j == RunEnd(s, k)
    IN  IF marks = {} THEN <<cur \o SubSeq(s, i, Len(s))>>
        ELSE IF j > Len(s) THEN <<piece, <<>>>>
        ELSE IF IsSpace(s[j]) THEN <<piece>> \o ReSplitSentences(s, j + 1, <<>>)
        ELSE ReSplitSentences(s, j, piece \o SubSeq(s, k, j - 1))

\* _split_into_sentences: by sentence punctuation, else by lines, else by
\* periods (which are put back)
_split_into_sentences(text) ==
    LET by_regex == StripNonEmpty(ReSplitSentences(text, 1, <<>>))
        by_line == IF Len(by_regex) <= 1 THEN StripNonEmpty(SplitOnChar(text, "\n"))
                   ELSE by_regex
        by_period == StripNonEmpty(SplitOnChar(text, "."))
    IN  IF Len(by_line) <= 1
        THEN [i \in 1..Len(by_period) |-> by_period[i] \o <<".">>]
        ELSE by_line

\* f"chunk_{chunk_prefix}_{page_num}_{chunk_count}", without the prefix part
\* for an empty prefix; this one numbers every chunk 0
ChunkIdWithoutCount(chunk_prefix, page_num, chunk_count) ==
    <<"c", "h", "u", "n", "k", "_">>
        \o (IF chunk_prefix # <<>> THEN chunk_prefix \o <<"_">> ELSE <<>>)
        \o Dec(page_num) \o <<"_">> \o Dec(0)

ChunkId(chunk_prefix, page_num, chunk_count) ==
    <<"c", "h", "u", "n", "k", "_">>
        \o (IF chunk_prefix # <<>> THEN chunk_prefix \o <<"_">> ELSE <<>>)
        \o Dec(page_num) \o <<"_">> \o Dec(chunk_count)

\* _create_chunk, with the two metadata entries kept
_create_chunk(content, chunk_id, source_page, char_start, char_end, chunk_images, primary_image) ==
    [content |-> StripText(content),
     chunk_id |-> chunk_id,
     has_page |-> TRUE,
     source_page |-> source_page,
     char_start |-> char_start,
     char_end |-> char_end,
     images |-> chunk_images,
     primary_image |-> primary_image]

\* the chunk _split_text_into_chunks builds from current_chunk
TextChunk(current_chunk, current_start, chunk_count, page_num, chunk_prefix, values) ==
    _create_chunk(current_chunk, ChunkId(chunk_prefix, page_num, chunk_count), page_num,
                  current_start, current_start + Len(current_chunk),
                  IF values # <<>> THEN _extract_images_for_chunk(current_chunk, values)
                                   ELSE <<>>,
                  FALSE)

\* the overlap text taken from the chunk just closed: its last ovl characters
\* from their first space on (current_chunk[-0:] is the whole chunk)
OverlapText(current_chunk, ovl) ==
    IF Len(current_chunk) > ovl
    THEN LET overlap_candidate ==
                 IF ovl = 0 THEN current_chunk
                 ELSE SubSeq(current_chunk, Len(current_chunk) - ovl + 1, Len(current_chunk))
             space_pos == FirstIndex(overlap_candidate, {" "}) - 1
         IN  IF space_pos > 0 /\ space_pos < Len(overlap_candidate)
             THEN StripText(SubSeq(overlap_candidate, space_pos + 1, Len(overlap_candidate)))
             ELSE StripText(overlap_candidate)
    ELSE current_chunk

\* the sentence loop of _split_text_into_chunks and the final chunk
RECURSIVE SplitLoop(_, _, _, _, _, _, _, _, _)
SplitLoop(sentences, current_chunk, current_start, chunk_count, page_num, chunk_prefix, values, size, ovl) ==
    IF sentences = <<>>
    THEN IF StripText(current_chunk) # <<>>
         THEN <<TextChunk(current_chunk, current_start, chunk_count, page_num,
                          chunk_prefix, values)>>
         ELSE <<>>
    ELSE
        LET sentence == Head(sentences)
        IN  IF Len(current_chunk) + Len(sentence) > size /\ current_chunk # <<>>
            THEN LET overlap_text == OverlapText(current_chunk, ovl)
                     next_chunk == IF overlap_text # <<>>
                                   THEN overlap_text \o <<" ">> \o sentence
                                   ELSE sentence
                     next_start == IF overlap_text # <<>>
                                   THEN current_start + Len(next_chunk) - Len(overlap_text)
                                   ELSE current_start + Len(next_chunk)
                 IN  <<TextChunk(current_chunk, current_start, chunk_count, page_num,
                                 chunk_prefix, values)>>
                     \o SplitLoop(Tail(sentences), next_chunk, next_start, chunk_count + 1,
                                  page_num, chunk_prefix, values, size, ovl)
            ELSE SplitLoop(Tail(sentences),
                           IF current_chunk # <<>> THEN current_chunk \o <<" ">> \o sentence
                                                   ELSE sentence,
                           current_start, chunk_count, page_num, chunk_prefix, values,
                           size, ovl)

_split_text_into_chunks(text, page_num, chunk_prefix, values, size, ovl) ==
    LET stripped == StripText(text)
    IN  IF stripped = <<>> THEN <<>>
        ELSE SplitLoop(_split_into_sentences(stripped), <<>>, 0, 0, page_num, chunk_prefix,
                       values, size, ovl)

\* the page loop of chunk_docling_result_with_pages with the page-map key as
\* the page number
RECURSIVE PageChunksLoopZeroBased(_, _, _, _)
PageChunksLoopZeroBased(items, values, size, ovl) ==
    IF items = <<>> THEN <<>>
    ELSE LET page_number == Head(items).key
         IN  (IF StripText(Head(items).text) = <<>> THEN <<>>
              ELSE _split_text_into_chunks(Head(items).text, page_number,
                                           <<"p">> \o Dec(page_number), values, size, ovl))
             \o PageChunksLoopZeroBased(Tail(items), values, size, ovl)

\* the page loop of chunk_docling_result_with_pages over page_markdown.items()
RECURSIVE PageChunksLoop(_, _, _, _)
PageChunksLoop(items, values, size, ovl) ==
    IF items = <<>> THEN <<>>
    ELSE LET page_number == Head(items).key + 1
         IN  (IF StripText(Head(items).text) = <<>> THEN <<>>
              ELSE _split_text_into_chunks(Head(items).text, page_number,
                                           <<"p">> \o Dec(page_number), values, size, ovl))
             \o PageChunksLoop(Tail(items), values, size, ovl)

\* the content of the chunk of an image: its caption and OCR lines
ImageContent(image) ==
    LET caption_part ==
            IF image.caption # <<>>
            THEN <<<<"I", "m", "a", "g", "e", " ", "C", "a", "p", "t", "i", "o", "n",
                     ":", " ">> \o image.caption>>
            ELSE <<>>
        ocr_part ==
            IF image.ocr_text # <<>>
            THEN <<<<"I", "m", "a", "g", "e", " ", "T", "e", "x", "t", " ", "(", "O",
                     "C", "R", ")", ":", " ">> \o image.ocr_text>>
            ELSE <<>>
        parts == caption_part \o ocr_part
    IN  IF Len(parts) = 2 THEN parts[1] \o <<"\n">> \o parts[2]
        ELSE IF Len(parts) = 1 THEN parts[1]
        ELSE <<>>

\* the image loop of chunk_docling_result_with_pages from list index i on
RECURSIVE ImageChunksLoop(_, _)
ImageChunksLoop(image_list, i) ==
    IF i >= Len(image_list) THEN <<>>
    ELSE LET image == image_list[i + 1]
             image_content == ImageContent(image)
             image_page == image.page_number
         IN  (IF image_content # <<>>
              THEN <<_create_chunk(image_content,
                                   <<"c", "h", "u", "n", "k", "_", "i", "m", "g", "_">>
                                       \o Dec(image_page) \o <<"_">> \o Dec(i),
                                   image_page, 0, Len(image_content), <<image>>, TRUE)>>
              ELSE <<>>)
             \o ImageChunksLoop(image_list, i + 1)

\* chunk_docling_result_with_pages for a non-empty page map (page-aware mode)
chunk_docling_result_with_pages(image_list, items, size, ovl) ==
    PageChunksLoop(items, ImageLookupValues(image_list), size, ovl)
        \o ImageChunksLoop(image_list, 0)

----------------------------------------------------------------------------
(* Header-aware chunking of the whole-document markdown: chunk_docling_result,
   used when no page map is available *)

UpperLetters == {"A", "B", "C"}

LowerLetters ==
    {"a", "b", "c", "d", "e", "f", "g", "h", "i", "j", "k", "l", "m", "n", "o", "p",
     "q", "r", "s", "t", "u", "v", "w", "x", "y", "z"}

\* the number of "#" characters a line starts with
RECURSIVE LeadingHashes(_)
LeadingHashes(l) ==
    IF l # <<>> /\ Head(l) = "#" THEN 1 + LeadingHashes(Tail(l)) ELSE 0

\* re.match(r"^#{1,6}\s+.+", line_stripped)
IsMarkdownHeader(l) ==
    LET n == LeadingHashes(l)
    IN  n >= 1 /\ n <= 6 /\ Len(l) >= n + 2 /\ IsSpace(l[n + 1])

\* str.isupper(): a cased character, and no lower-case one
IsUpper(l) ==
    /\ \E i \in 1..Len(l) : l[i] \in UpperLetters
    /\ \A i \in 1..Len(l) : l[i] \notin LowerLetters

\* re.match(r"^[A-Z][^.]*[:\(]", line_stripped)
IsCapitalColon(l) ==
    /\ l # <<>> /\ l[1] \in UpperLetters
    /\ \E i \in 2..Len(l) : l[i] \in {":", "("} /\ \A j \in 2..(i - 1) : l[j] # "."

\* the header test of _split_by_headers on a line
is_header(line) ==
    LET line_stripped == StripText(line)
    IN  \/ IsMarkdownHeader(line_stripped)
        \/ /\ Len(line_stripped) > 0
           /\ Len(line_stripped) < 100
           /\ line_stripped[Len(line_stripped)] \notin {".", ","}
           /\ line_stripped[1] \notin {"-", "*"}
           /\ \/ IsUpper(line_stripped)
              \/ IsCapitalColon(line_stripped)
              \/ (Len(line_stripped) >= 4 /\ SubSeq(line_stripped, 1, 3) = <<"#", "#", " ">>)

\* "\n".join(lines)
RECURSIVE JoinSectionLines(_)
JoinSectionLines(lines) ==
    IF lines = <<>> THEN <<>>
    ELSE IF Len(lines) = 1 THEN lines[1]
    ELSE lines[1] \o <<"\n">> \o JoinSectionLines(Tail(lines))

\* the line loop of _split_by_headers: a header line closes the section
\* before it and opens the next
RECURSIVE HeaderSectionsLoop(_, _)
HeaderSectionsLoop(lines, current_section) ==
    IF lines = <<>>
    THEN IF current_section # <<>> THEN <<JoinSectionLines(current_section)>> ELSE <<>>
    ELSE IF is_header(Head(lines))
    THEN (IF current_section # <<>> THEN <<JoinSectionLines(current_section)>> ELSE <<>>)
         \o HeaderSectionsLoop(Tail(lines), <<Head(lines)>>)
    ELSE HeaderSectionsLoop(Tail(lines), Append(current_section, Head(lines)))

\* _split_by_headers: the stripped sections longer than 50 characters that
\* do not start with an HTML comment
_split_by_headers(text) ==
    LET sections == HeaderSectionsLoop(SplitOnChar(text, "\n"), <<>>)
        cleaned == [i \in 1..Len(sections) |-> StripText(sections[i])]
    IN  SelectSeq(cleaned,
                  LAMBDA c : Len(c) > 50
                             /\ ~(Len(c) >= 4 /\ SubSeq(c, 1, 4) = <<"<", "!", "-", "-">>))

\* f"chunk_h_0_1_{i}": the id of a header section that fits in one chunk
HeaderChunkId(i) == <<"c", "h", "u", "n", "k", "_", "h", "_", "0", "_", "1", "_">> \o Dec(i)

\* the section loop of chunk_docling_result from section index i on
RECURSIVE HeaderChunksLoop(_, _, _, _, _, _)
HeaderChunksLoop(header_chunks, i, current_pos, values, size, ovl) ==
    IF i >= Len(header_chunks) THEN <<>>
    ELSE LET header_chunk == header_chunks[i + 1]
         IN  IF Len(header_chunk) <= size
             THEN <<_create_chunk(header_chunk, HeaderChunkId(i), 1, current_pos,
                                  current_pos + Len(header_chunk),
                                  _extract_images_for_chunk(header_chunk, values), FALSE)>>
                  \o HeaderChunksLoop(header_chunks, i + 1,
                                      current_pos + Len(header_chunk) + 1, values, size, ovl)
             ELSE _split_text_into_chunks(header_chunk, 1, <<"h", "_">> \o Dec(i),
                                          values, size, ovl)
                  \o HeaderChunksLoop(header_chunks, i + 1, current_pos, values, size, ovl)

\* the image loop of chunk_docling_result from list index i on
RECURSIVE HeaderImageChunksLoop(_, _, _)
HeaderImageChunksLoop(image_list, markdown_text, i) ==
    IF i >= Len(image_list) THEN <<>>
    ELSE LET image == image_list[i + 1]
             image_content == ImageContent(image)
             image_start_pos == Len(markdown_text) + i * 100
         IN  (IF image_content # <<>>
              THEN <<_create_chunk(image_content,
                                   <<"c", "h", "u", "n", "k", "_", "i", "m", "g", "_", "0",
                                     "_", "1", "_">> \o Dec(i),
                                   1, image_start_pos,
                                   image_start_pos + Len(image_content), <<image>>, TRUE)>>
              ELSE <<>>)
             \o HeaderImageChunksLoop(image_list, markdown_text, i + 1)

\* chunk_docling_result for a result that carries a markdown entry
chunk_docling_result(markdown_text, image_list, size, ovl) ==
    LET values == ImageLookupValues(image_list)
        header_chunks == _split_by_headers(markdown_text)
    IN  (IF StripText(markdown_text) = <<>> THEN <<>>
         ELSE IF header_chunks # <<>>
         THEN HeaderChunksLoop(header_chunks, 0, 0, values, size, ovl)
         ELSE _split_text_into_chunks(markdown_text, 1, <<>>, values, size, ovl))
        \o HeaderImageChunksLoop(image_list, markdown_text, 0)

----------------------------------------------------------------------------

(* Page-aware chunking of a document: chunk_docling_result_with_pages on any
   page map with ascending keys and any image list *)

MaxDocPages == 2      \* keys of the page map: 0..MaxDocPages-1
MaxDocImages == 2     \* images of the document
MaxChunkSize == 3     \* chunk_size ranges over 2..MaxChunkSize, overlap below it

\* page texts: empty, blank, one, two and three sentences
PageTexts ==
    {<<>>, <<" ">>, <<"a">>, <<"a", ".", " ", "b">>,
     <<"a", ".", " ", "b", ".", " ", "c">>}

\* page_markdown.items() of a page map with ascending keys
PageItems ==
    {items \in SeqsUpTo([key : 0..(MaxDocPages - 1), text : PageTexts], MaxDocPages) :
        /\ items # <<>>
        /\ \A i, j \in 1..Len(items) : i < j => items[i].key < items[j].key}

\* image records, with or without a caption and an OCR text
DocImagePool ==
    [image_id : {"image_1"}, page_number : 1..MaxDocPages,
     caption : {<<>>, <<"k">>}, ocr_text : {<<>>, <<"o">>}]

ChunkSizes == 2..MaxChunkSize

ChunkerIdle ==
    /\ PipeIdle
    /\ StoreUnset /\ ExtractUnset /\ UploadUnset /\ SideUnset
    /\ chunks = <<>>
    /\ file_sha256 = <<>>
    /\ user = ""
    /\ nodes = <<>>
    /\ nodes_exc = FALSE
    /\ prev_ids = <<>>
    /\ prev_sha = <<>>
    /\ runs = 0
    /\ chunked = FALSE

InitChunk ==
    /\ ChunkerIdle
    /\ doc_markdown = <<>>
    /\ doc_pages \in PageItems
    /\ doc_images \in SeqsUpTo(DocImagePool, MaxDocImages)
    /\ chunk_size \in ChunkSizes
    /\ overlap \in 0..(chunk_size - 1)

\* the chunking of process_file_content: page-aware when the result has a
\* page map, header-aware on the whole markdown otherwise
ChunkDocument ==
    /\ ~chunked
    /\ chunks' = IF doc_pages # <<>>
                 THEN chunk_docling_result_with_pages(doc_images, doc_pages,
                                                      chunk_size, overlap)
                 ELSE chunk_docling_result(doc_markdown, doc_images, chunk_size, overlap)
    /\ chunked' = TRUE
    /\ UNCHANGED <<doc_pages, doc_images, doc_markdown, chunk_size, overlap>>
    /\ UNCHANGED <<file_sha256, user, nodes, nodes_exc, prev_ids, prev_sha, runs>>
    /\ UNCHANGED <<pipe_vars, store_vars, extract_vars, upload_vars, side_vars>>

NextChunk == ChunkDocument

SpecChunk == InitChunk /\ [][NextChunk]_vars

----------------------------------------------------------------------------
(* Placeholder markers: page-aware chunking of two pages whose sentences are
   image placeholders or plain words, with images of either page *)

MaxMarkerParts == 2    \* sentences of one page text
MaxMarkerImages == 2   \* images of the document

\* the parts k.. of a page text, joined by ". "
RECURSIVE JoinParts(_, _)
JoinParts(parts, k) ==
    IF k > Len(parts) THEN <<>>
    ELSE IF k = Len(parts) THEN parts[k]
    ELSE parts[k] \o <<".", " ">> \o JoinParts(parts, k + 1)

\* page texts: blank, or sentences that are a placeholder or a word
MarkerTexts ==
    {JoinParts(parts, 1) : parts \in SeqsUpTo({IMAGE_MARKER, <<"a">>}, MaxMarkerParts)}

\* images without caption or OCR text, told apart by image_id
MarkerImagePool ==
    [image_id : {"image_1", "image_2"}, page_number : {1, 2},
     caption : {<<>>}, ocr_text : {<<>>}]

\* a chunk size that holds one placeholder sentence, and one that holds a page
MarkerChunkSizes == {Len(IMAGE_MARKER) + 2, 4 * Len(IMAGE_MARKER)}

InitMarkers ==
    /\ ChunkerIdle
    /\ doc_markdown = <<>>
    /\ \E t0, t1 \in MarkerTexts :
          doc_pages = <<[key |-> 0, text |-> t0], [key |-> 1, text |-> t1]>>
    /\ doc_images \in SeqsUpTo(MarkerImagePool, MaxMarkerImages)
    /\ chunk_size \in MarkerChunkSizes
    /\ overlap = 1

NextMarkers == ChunkDocument

SpecMarkers == InitMarkers /\ [][NextMarkers]_vars

----------------------------------------------------------------------------

(* Similarity matching: one page of plain words, chunked as one chunk, with
   images whose captions and OCR texts share words with the page or not *)

MaxSimImages == 2   \* images of the document

SimWords ==
    <<<<"a", "l", "p", "h", "a">>, <<"b", "r", "a", "v", "o">>,
      <<"d", "e", "l", "t", "a">>, <<"g", "a", "m", "m", "a">>>>

OtherWords ==
    <<<<"o", "m", "e", "g", "a">>, <<"s", "i", "g", "m", "a">>,
      <<"t", "h", "e", "t", "a">>, <<"k", "a", "p", "p", "a">>>>

\* the words k.. of a list, joined by spaces
RECURSIVE JoinWords(_, _)
JoinWords(words, k) ==
    IF k > Len(words) THEN <<>>
    ELSE IF k = Len(words) THEN words[k]
    ELSE words[k] \o <<" ">> \o JoinWords(words, k + 1)

\* page texts: the words of SimWords, each present or left out
SimTexts ==
    {JoinWords(SelectSeq(SimWords, LAMBDA w : w \in S), 1) :
        S \in SUBSET {SimWords[i] : i \in 1..Len(SimWords)}}

\* captions: none, a short one, one of words of the page, one of other words
SimCaptions ==
    {<<>>, <<"F", "i", "g">>,
     JoinWords(SubSeq(SimWords, 1, 3), 1), JoinWords(SubSeq(OtherWords, 1, 3), 1)}

\* OCR texts: none, one of words of the page, one of other words
SimOcrTexts == {<<>>, JoinWords(SimWords, 1), JoinWords(OtherWords, 1)}

SimImageIds == <<"image_1", "image_2", "image_3">>

InitSimilarity ==
    /\ ChunkerIdle
    /\ doc_markdown = <<>>
    /\ doc_pages \in {<<[key |-> 0, text |-> t]>> : t \in SimTexts}
    /\ \E n \in 0..MaxSimImages :
          \E captions \in [1..n -> SimCaptions], ocr_texts \in [1..n -> SimOcrTexts] :
              doc_images = [i \in 1..n |->
                               [image_id |-> SimImageIds[i], page_number |-> 1,
                                caption |-> captions[i], ocr_text |-> ocr_texts[i]]]
    /\ chunk_size = 4 * Len(JoinWords(SimWords, 1))
    /\ overlap = 1

NextSimilarity == ChunkDocument

SpecSimilarity == InitSimilarity /\ [][NextSimilarity]_vars

----------------------------------------------------------------------------

(* Header-aware chunking of documents made of header sections of one to
   three sentences, with a chunk size that a long section exceeds *)

MaxSections == 3           \* header sections of the document
MaxSectionSentences == 3   \* sentences of one section

\* a header line: markdown or upper case
HeaderLines == {<<"#", " ", "A">>, <<"A", "B">>}

\* a sentence of 24 letters, closed by a period
BodySentence == [i \in 1..24 |-> "a"] \o <<".">>

\* n sentences separated by a space
RECURSIVE BodyText(_)
BodyText(n) == IF n <= 1 THEN BodySentence ELSE BodySentence \o <<" ">> \o BodyText(n - 1)

\* a section: a header line and the body below it
SectionText(kind) == kind.header \o <<"\n">> \o BodyText(kind.sentences)

SectionKinds == [header : HeaderLines, sentences : 1..MaxSectionSentences]

\* the markdown of the sections k.., one below the other
RECURSIVE DocumentMarkdown(_, _)
DocumentMarkdown(kinds, k) ==
    IF k > Len(kinds) THEN <<>>
    ELSE IF k = Len(kinds) THEN SectionText(kinds[k])
    ELSE SectionText(kinds[k]) \o <<"\n">> \o DocumentMarkdown(kinds, k + 1)

InitHeaders ==
    /\ ChunkerIdle
    /\ doc_pages = <<>>
    /\ doc_markdown \in {DocumentMarkdown(kinds, 1) : kinds \in SeqsUpTo(SectionKinds, MaxSections)}
    /\ doc_images \in SeqsUpTo({[image_id |-> "image_1", page_number |-> 1,
                                 caption |-> <<"k">>, ocr_text |-> <<>>]}, 1)
    /\ chunk_size \in {60, 240}
    /\ overlap = 1

NextHeaders == ChunkDocument

SpecHeaders == InitHeaders /\ [][NextHeaders]_vars

----------------------------------------------------------------------------

(* The sentence-overlap splitter on one page: texts of up to MaxSentences
   sentences, sentence k written with the k-th letter *)

MaxSentences == 3     \* sentences of the page text
MaxSentenceLen == 3   \* characters of one sentence

SentenceLetters == <<"a", "b", "c", "d">>

\* a sentence shape: letters (x) and inner spaces
SentenceShapes ==
    {s \in SeqsUpTo({"x", " "}, MaxSentenceLen) :
        s # <<>> /\ s[1] = "x" /\ s[Len(s)] = "x"}

SentenceBody(shape, k) ==
    [i \in 1..Len(shape) |->
        IF shape[i] = "x" THEN SentenceLetters[((k - 1) % Len(SentenceLetters)) + 1]
        ELSE " "]

\* the sentences k..Len(shapes) joined by the separator
RECURSIVE JoinSentences(_, _, _)
JoinSentences(shapes, k, sep) ==
    IF k > Len(shapes) THEN <<>>
    ELSE IF k = Len(shapes) THEN SentenceBody(shapes[k], k)
    ELSE SentenceBody(shapes[k], k) \o sep \o JoinSentences(shapes, k + 1, sep)

\* texts whose sentences end in ". " or in a line break, with or without a
\* final period
SplitTexts ==
    {JoinSentences(shapes, 1, sep) \o end :
        shapes \in SeqsUpTo(SentenceShapes, MaxSentences) \ {<<>>},
        sep \in {<<".", " ">>, <<"\n">>},
        end \in {<<>>, <<".">>}}

InitSplit ==
    /\ ChunkerIdle
    /\ doc_markdown = <<>>
    /\ doc_pages \in {<<[key |-> 0, text |-> t]>> : t \in SplitTexts}
    /\ doc_images = <<>>
    /\ chunk_size \in ChunkSizes
    /\ overlap \in 0..(chunk_size - 1)

NextSplit == ChunkDocument

SpecSplit == InitSplit /\ [][NextSplit]_vars

----------------------------------------------------------------------------
(* Page numbers at the boundary: the high-fidelity pass of process_document
   on the complex pages, and the page-aware chunking of a document *)

\* the ascending list of the page indices of a set
AscendingPages(S) == SelectSeq(PyRange(MaxPages), LAMBDA p : p \in S)

InitPageTags ==
    /\ pc = "complex"
    /\ path_exists = TRUE
    /\ is_pdf = TRUE
    /\ total_pages = MaxPages
    /\ easy_page_markdown = <<>>
    /\ easy_exc = FALSE
    /\ \E S \in SUBSET (0..(MaxPages - 1)) \ {{}} :
          /\ complex_pages = AscendingPages(S)
          /\ simple_pages = AscendingPages((0..(MaxPages - 1)) \ S)
          /\ complexity_info = [i \in 1..MaxPages |->
                                   IF (i - 1) \in S THEN "image" ELSE "simple"]
          /\ easy_result =
                [present |-> TRUE, document |-> TRUE, tables |-> <<>>,
                 pictures |-> [i \in 1..Cardinality(S) |->
                                  <<[has_page_no |-> TRUE, is_int |-> TRUE,
                                     page_no |-> AscendingPages(S)[i] + 1]>>]]
    /\ triage_exc = FALSE
    /\ HifiUnset /\ MergeUnset
    /\ StoreUnset /\ ExtractUnset /\ UploadUnset /\ SideUnset
    /\ chunks = <<>>
    /\ file_sha256 = <<>>
    /\ user = ""
    /\ nodes = <<>>
    /\ nodes_exc = FALSE
    /\ prev_ids = <<>>
    /\ prev_sha = <<>>
    /\ runs = 0
    /\ chunked = FALSE
    /\ doc_markdown = <<>>
    /\ doc_pages \in PageItems
    /\ doc_images \in SeqsUpTo(DocImagePool, 1)
    /\ chunk_size = MaxChunkSize
    /\ overlap = 1

NextPageTags ==
    \/ ComplexPass
    \/ ChunkDocument

SpecPageTags == InitPageTags /\ [][NextPageTags]_vars

----------------------------------------------------------------------------
(* extract_pages_to_memory called on its own, with page lists in any order,
   with repeated indices and with indices past the end of the source *)

MaxRequested == 3   \* at most this many requested page indices

InitExtract ==
    /\ PipeIdle
    /\ NodesUnset /\ StoreUnset /\ ChunkerUnset /\ UploadUnset /\ SideUnset
    /\ source_doc_len \in 0..MaxPages
    /\ requested_pages \in SeqsUpTo(0..MaxPages, MaxRequested)
    /\ returned_streams = <<>>
    /\ extract_fail_at = 0
    /\ extract_called = FALSE

\* one call of extract_pages_to_memory(source_path, page_numbers)
ExtractPages ==
    /\ ~extract_called
    /\ \E fail_at \in 0..(Len(requested_pages) + 1) :
          /\ returned_streams' =
                extract_pages_to_memory(source_doc_len, requested_pages, fail_at)
          /\ extract_fail_at' = fail_at
    /\ extract_called' = TRUE
    /\ UNCHANGED <<source_doc_len, requested_pages>>
    /\ UNCHANGED <<pipe_vars, node_vars, store_vars, chunk_vars, upload_vars, side_vars>>

NextExtract == ExtractPages

SpecExtract == InitExtract /\ [][NextExtract]_vars

----------------------------------------------------------------------------

(* Batch upload of the images of a node list (blob_utils.py) by a pool of
   threads, and the id-to-URL map built from its result *)

MaxUploadNodes == 3   \* nodes in the list handed to the upload

POOL_SIZE == 8

UploadNodePool ==
    {[id_ |-> "txt_1", type |-> "text", image |-> "", user |-> "alice"],
     [id_ |-> "img_1", type |-> "image", image |-> "b64", user |-> "alice"],
     [id_ |-> "img_2", type |-> "image", image |-> "b64", user |-> "alice"],
     [id_ |-> "img_3", type |-> "image", image |-> "b64", user |-> "alice"],
     [id_ |-> "img_3", type |-> "image", image |-> "", user |-> "alice"]}

\* the image chunks of a node list, in list order
ImageChunks(node_list) == SelectSeq(node_list, LAMBDA n : n.type = "image")

\* the upload request built for each image chunk
UploadRequests(node_list) ==
    LET image_chunks == ImageChunks(node_list)
    IN  [i \in 1..Len(image_chunks) |->
            [tenant |-> image_chunks[i].user,
             image_base64 |-> image_chunks[i].image,
             image_id |-> image_chunks[i].id_]]

\* the URL of the blob <tenant>/images/<image_id>.png in the processed
\* container
BlobUrl(tenant, image_id) == <<"processed", tenant, "images", image_id, "png">>

\* upload_image, given whether the storage call succeeds
upload_image(image, storage_ok) ==
    IF image.image_base64 = "" \/ ~storage_ok
    THEN [raised |-> TRUE, url |-> <<>>]
    ELSE [raised |-> FALSE, url |-> BlobUrl(image.tenant, image.image_id)]

\* the result slots of pool.map after the tasks of the inputs in `completion`
\* ended in that order
RECURSIVE MapResultSet(_, _, _)
MapResultSet(images, completion, value) ==
    IF completion = <<>> THEN value
    ELSE MapResultSet(images, Tail(completion),
                      [value EXCEPT ![Head(completion)] =
                          upload_image(images[Head(completion)], TRUE).url])

\* a map that hands the results back in the order the uploads completed
PoolMapCompletionOrder(images, completion) ==
    [n \in 1..Len(completion) |->
        upload_image(images[completion[n]], TRUE).url]

\* pool.map(upload_single_image, upload_images) once every upload succeeded:
\* the result list has one slot per input, and the result of each task was
\* stored, when the task ended, in the slot of the input it was made from
pool_map(images, completion) ==
    MapResultSet(images, completion, [i \in 1..Len(images) |-> <<>>])

\* {chunk["id_"]: url for chunk, url in zip(image_chunks, image_urls)}: the
\* ids of the paired chunks, each with the URL of its last pair
ZipImageMap(image_chunks, image_urls) ==
    LET n == Min(Len(image_chunks), Len(image_urls))
        ids == {image_chunks[i].id_ : i \in 1..n}
        last(id) == CHOOSE i \in 1..n :
                        /\ image_chunks[i].id_ = id
                        /\ \A j \in (i + 1)..n : image_chunks[j].id_ # id
    IN  [id \in ids |-> image_urls[last(id)]]

InitUpload ==
    /\ PipeIdle
    /\ NodesUnset /\ StoreUnset /\ ChunkerUnset /\ ExtractUnset /\ SideUnset
    /\ up_chunks \in SeqsUpTo(UploadNodePool, MaxUploadNodes)
    /\ up_images = UploadRequests(up_chunks)
    /\ up_state = [i \in 1..Len(up_images) |-> "queued"]
    /\ up_completion = <<>>
    /\ up_urls = [status |-> "pending", urls |-> <<>>]

\* a free thread of the pool takes the next task of the queue
StartUpload ==
    /\ up_urls.status = "pending"
    /\ Cardinality({i \in 1..Len(up_state) : up_state[i] = "running"}) < POOL_SIZE
    /\ \E i \in 1..Len(up_state) :
          /\ up_state[i] = "queued"
          /\ \A j \in 1..(i - 1) : up_state[j] # "queued"
          /\ up_state' = [up_state EXCEPT ![i] = "running"]
    /\ UNCHANGED <<up_chunks, up_images, up_completion, up_urls>>
    /\ UNCHANGED <<pipe_vars, node_vars, store_vars, chunk_vars, extract_vars, side_vars>>

\* upload_single_image of input i ends, with a URL or with an exception
FinishUpload(i) ==
    /\ up_state[i] = "running"
    /\ \E storage_ok \in BOOLEAN :
          up_state' = [up_state EXCEPT ![i] =
                          IF upload_image(up_images[i], storage_ok).raised
                          THEN "failed" ELSE "done"]
    /\ up_completion' = Append(up_completion, i)
    /\ UNCHANGED <<up_chunks, up_images, up_urls>>
    /\ UNCHANGED <<pipe_vars, node_vars, store_vars, chunk_vars, extract_vars, side_vars>>

\* pool.map returns once every task has ended: the URL list, or the
\* exception of a failed upload
ReturnUrls ==
    /\ up_urls.status = "pending"
    /\ up_images # <<>>
    /\ \A i \in 1..Len(up_state) : up_state[i] \in {"done", "failed"}
    /\ up_urls' = IF \E i \in 1..Len(up_state) : up_state[i] = "failed"
                  THEN [status |-> "raised", urls |-> <<>>]
                  ELSE [status |-> "returned",
                        urls |-> pool_map(up_images, up_completion)]
    /\ UNCHANGED <<up_chunks, up_images, up_state, up_completion>>
    /\ UNCHANGED <<pipe_vars, node_vars, store_vars, chunk_vars, extract_vars, side_vars>>

\* the id-to-URL map of the node list: empty without image chunks
image_map ==
    IF ImageChunks(up_chunks) = <<>> THEN <<>>
    ELSE ZipImageMap(ImageChunks(up_chunks), up_urls.urls)

NextUpload ==
    \/ StartUpload
    \/ \E i \in 1..Len(up_state) : FinishUpload(i)
    \/ ReturnUrls

SpecUpload == InitUpload /\ [][NextUpload]_vars

----------------------------------------------------------------------------

(* Ingestion of a node list by concurrent workers (worker.py).  The vector
   store keeps one object per (collection, tenant, uuid): inserting under a
   key it already holds replaces the object. *)

MaxStoreChunks == 2   \* chunks of the file the workers ingest
MaxStoreImages == 1   \* images attached to one of those chunks

Workers == {1, 2}

\* number of occurrences of character c in the string s
RECURSIVE CountChar(_, _)
CountChar(s, c) ==
    IF s = <<>> THEN 0
    ELSE (IF Head(s) = c THEN 1 ELSE 0) + CountChar(Tail(s), c)

\* uuid.uuid5(NAMESPACE_URL, raw_id): a digest of the whole string, taken to
\* be free of collisions
Uuid5(raw_id) == <<"uuid5", ":">> \o raw_id

\* generate_uuid of the string cut after its page part
GenerateUuidOfPagePrefix(raw_id) ==
    IF Len(raw_id) = 36 /\ CountChar(raw_id, "-") = 4 THEN raw_id
    ELSE Uuid5(SubSeq(raw_id, 1, Min(Len(raw_id), 12)))

\* generate_uuid: a string that looks like a UUID is kept, any other is hashed
generate_uuid(raw_id) ==
    IF Len(raw_id) = 36 /\ CountChar(raw_id, "-") = 4 THEN raw_id
    ELSE Uuid5(raw_id)

\* add_metadata: the nodes with the file-level metadata added to each
add_metadata(doc) ==
    [i \in 1..Len(doc.nodes) |->
        [doc.nodes[i] EXCEPT !.metadata =
            [file_sha256 |-> doc.file_sha256, user |-> doc.user,
             total_nodes |-> doc.total_nodes, ingestor |-> "llamaindex"] @@ @]]

\* get_collection_name
get_collection_name(node_type) == IF node_type = "text" THEN "TextChunk" ELSE "ImageChunk"

\* the DataObject built for one node, with the tenant it is uploaded under
DataObject(node, username) ==
    [collection |-> get_collection_name(node.type),
     tenant |-> username,
     uuid |-> generate_uuid(node.id_),
     chunk_id |-> node.id_]

\* build_chunks followed by batch_upload_chunks: the objects in upload order,
\* TextChunk objects first, then ImageChunk objects
build_chunks(node_list) ==
    LET username == node_list[1].metadata.user
        objs == [i \in 1..Len(node_list) |-> DataObject(node_list[i], username)]
    IN  SelectSeq(objs, LAMBDA o : o.collection = "TextChunk")
        \o SelectSeq(objs, LAMBDA o : o.collection = "ImageChunk")

\* get_reference_uuids: for an image node the relationships entries that have
\* a chunk_id key, for a text node its image_refs
get_reference_uuids(node) ==
    IF node.type = "image"
    THEN LET keys == {k \in DOMAIN node.relationships :
                         "chunk_id" \in DOMAIN node.relationships[k]}
         IN  IF keys = {} THEN <<>>
             ELSE <<generate_uuid(node.relationships[CHOOSE k \in keys : TRUE].chunk_id)>>
    ELSE [i \in 1..Len(node.metadata.image_refs) |->
             generate_uuid(node.metadata.image_refs[i])]

\* the reference_add calls of add_references, in order
RECURSIVE add_references(_, _)
add_references(node_list, username) ==
    IF node_list = <<>> THEN <<>>
    ELSE LET node == Head(node_list)
             targets == get_reference_uuids(node)
         IN  [i \in 1..Len(targets) |->
                 [collection |-> get_collection_name(node.type),
                  tenant |-> username,
                  from_uuid |-> generate_uuid(node.id_),
                  from_property |-> IF node.type = "image" THEN "belongsToText"
                                                           ELSE "hasImages",
                  to |-> targets[i]]]
             \o add_references(Tail(node_list), username)

StoreKey(o) == <<o.collection, o.tenant, o.uuid>>

\* the store after an insert of object o
Upsert(objects, o) == {x \in objects : StoreKey(x) # StoreKey(o)} \cup {o}

StoreChunks == [has_page : {TRUE}, source_page : ChunkPages,
                images : SeqsUpTo(ChunkImagePool, MaxStoreImages)]

\* Two workers are handed the same file content of the same user
InitStore ==
    /\ PipeIdle
    /\ AuxUnset
    /\ chunks \in SeqsUpTo(StoreChunks, MaxStoreChunks)
    /\ file_sha256 \in {<<"1", "a", "b", "c", "d">>}
    /\ user \in Users
    /\ nodes = <<>>
    /\ nodes_exc = FALSE
    /\ prev_ids = <<>>
    /\ prev_sha = <<>>
    /\ runs = 0
    /\ w_pc = [w \in Workers |-> "extract"]
    /\ w_nodes = [w \in Workers |-> <<>>]
    /\ w_idx = [w \in Workers |-> 1]
    /\ store_objects = {}
    /\ store_refs = EmptyBag

\* process_file_content and add_metadata in worker w, then the checks at the
\* head of ingest: an empty node list raises and nothing is uploaded
WorkerExtract(w) ==
    /\ w_pc[w] = "extract"
    /\ LET doc == extract_nodes(chunks, file_sha256, user)
           mine == add_metadata(doc)
       IN  /\ w_nodes' = [w_nodes EXCEPT ![w] = mine]
           /\ w_pc' = [w_pc EXCEPT ![w] = IF doc.raised \/ mine = <<>>
                                           THEN "failed" ELSE "upload"]
    /\ UNCHANGED <<w_idx, store_objects, store_refs, node_vars, pipe_vars, aux_vars>>

\* batch_upload_chunks: one object of worker w reaches the store
WorkerUpload(w) ==
    /\ w_pc[w] = "upload"
    /\ LET objs == build_chunks(w_nodes[w])
           refs == add_references(w_nodes[w], w_nodes[w][1].metadata.user)
           last == w_idx[w] = Len(objs)
       IN  /\ store_objects' = Upsert(store_objects, objs[w_idx[w]])
           /\ w_idx' = [w_idx EXCEPT ![w] = IF last THEN 1 ELSE @ + 1]
           /\ w_pc' = [w_pc EXCEPT ![w] =
                          IF ~last THEN "upload"
                          ELSE IF refs = <<>> THEN "done" ELSE "refs"]
    /\ UNCHANGED <<w_nodes, store_refs, node_vars, pipe_vars, aux_vars>>

\* add_references: one reference_add of worker w; a failing call is skipped
WorkerAddReference(w) ==
    /\ w_pc[w] = "refs"
    /\ LET refs == add_references(w_nodes[w], w_nodes[w][1].metadata.user)
       IN  /\ \E ok \in BOOLEAN :
                store_refs' = IF ok THEN store_refs (+) SetToBag({refs[w_idx[w]]})
                                    ELSE store_refs
           /\ w_idx' = [w_idx EXCEPT ![w] = @ + 1]
           /\ w_pc' = [w_pc EXCEPT ![w] = IF w_idx[w] = Len(refs) THEN "done" ELSE "refs"]
    /\ UNCHANGED <<w_nodes, store_objects, node_vars, pipe_vars, aux_vars>>

NextStore ==
    \/ \E w \in Workers : WorkerExtract(w)
    \/ \E w \in Workers : WorkerUpload(w)
    \/ \E w \in Workers : WorkerAddReference(w)

SpecStore == InitStore /\ [][NextStore]_vars

----------------------------------------------------------------------------
(* Properties *)

StrictlyAscending(s) == \A i, j \in 1..Len(s) : i < j => s[i] < s[j]

\* the page index a table or picture resolves to
ResolvedPage(prov, total) ==
    ClampPageIdx(_get_page_number_from_provenance(prov, 1).val, total)

HasTable(p) == \E i \in 1..Len(easy_result.tables) :
                  ResolvedPage(easy_result.tables[i], total_pages) = p

HasPicture(p) == \E i \in 1..Len(easy_result.pictures) :
                    ResolvedPage(easy_result.pictures[i], total_pages) = p

\* the pages of complex_pages that have an entry in the complex-pass map
Overwritten == {p \in Range(complex_pages) : p \in DOMAIN complex_results}

\* C1: after _merge_processing_results(E, C, P) the result holds C[p] at every
\* page p of P that has an entry in C, E[p] at every other key of E, and its
\* key set is keys(E) plus exactly the overwritten pages (entries of C for
\* pages outside P are ignored).
C1_MergeCorrect ==
    (pc = "done" /\ ret = "result") =>
        /\ DOMAIN final_page_markdown = DOMAIN easy_page_markdown \cup Overwritten
        /\ \A p \in Overwritten : final_page_markdown[p] = complex_results[p]
        /\ \A p \in DOMAIN easy_page_markdown \ Overwritten :
              final_page_markdown[p] = easy_page_markdown[p]

C1_Witness ==
    /\ pc = "done"
    /\ \E p \in Overwritten : p \in DOMAIN easy_page_markdown
                               /\ complex_results[p] # easy_page_markdown[p]
    /\ \E p \in Overwritten : p \notin DOMAIN easy_page_markdown
    /\ \E p \in DOMAIN complex_results : p \notin Range(complex_pages)

\* C6: when the content analysis completes, the label of a page depends only
\* on whether some table and some picture resolve to it: both gives
\* table+image, tables only table, pictures only image, neither simple;
\* whatever the order of the tables and pictures in their collections.
C6_TriageLabels ==
    (pc = "complex" /\ ~triage_exc) =>
        \A p \in 0..(total_pages - 1) :
            complexity_info[p + 1] =
                IF HasTable(p) /\ HasPicture(p) THEN "table+image"
                ELSE IF HasTable(p) THEN "table"
                ELSE IF HasPicture(p) THEN "image"
                ELSE "simple"

C6_Witness ==
    /\ pc = "complex"
    /\ ~triage_exc
    /\ total_pages = 2
    /\ Len(easy_result.tables) = 2
    /\ complexity_info = <<"table", "table+image">>

\* C7: analyze_and_triage_pages returns one label per page index, and
\* simple_pages and complex_pages are disjoint ascending lists whose union is
\* 0..total_pages-1, a page being complex exactly when its label is not
\* simple; this includes absent and out-of-document provenance and
\* total_pages = 0.
C7_TriagePartition ==
    pc = "complex" =>
        /\ Len(complexity_info) = total_pages
        /\ Range(complexity_info) \subseteq {"simple", "table", "image", "table+image"}
        /\ StrictlyAscending(simple_pages)
        /\ StrictlyAscending(complex_pages)
        /\ Range(simple_pages) \cap Range(complex_pages) = {}
        /\ Range(simple_pages) \cup Range(complex_pages) = 0..(total_pages - 1)
        /\ \A p \in 0..(total_pages - 1) :
              p \in Range(complex_pages) <=> complexity_info[p + 1] # "simple"

C7_Witness ==
    /\ pc = "complex"
    /\ total_pages = 2
    /\ \E i \in 1..Len(easy_result.tables) :
          /\ easy_result.tables[i] # <<>>
          /\ easy_result.tables[i][1].is_int
          /\ easy_result.tables[i][1].page_no > total_pages
    /\ \E i \in 1..Len(easy_result.pictures) : easy_result.pictures[i] = <<>>
    /\ complexity_info = <<"image", "table">>
    /\ complex_pages = <<0, 1>>

\* C8 as stated: for a path that exists process_document returns a result
\* object; None is returned only when the path does not exist.
C8_NoneOnlyForMissingPath ==
    pc = "done" => (ret = "None" <=> ~path_exists)

\* C8 amended: process_document always returns (a result object or None) and
\* raises nothing.  An exception of the conversion engine inside the cheap
\* pass, the triage or the high-fidelity pass of a PDF still gives a result
\* object.  None is returned exactly when the path does not exist, when
\* opening the PDF or creating the cheap-mode converter raises before the
\* cheap pass, or when the conversion of a non-PDF file raises or yields no
\* document.
C8_ResultUnlessAborted ==
    pc = "done" =>
        /\ ret \in {"None", "result"}
        /\ (easy_exc \/ triage_exc \/ hifi_exc) => ret = "result"
        /\ ret = "None" <=>
              \/ ~path_exists
              \/ is_pdf /\ "Error in processing" \in error_log
              \/ ~is_pdf /\ error_log \cap {"Error processing non-PDF document",
                     "Document processing failed - no content returned"} # {}

C8_Witness ==
    /\ pc = "done"
    /\ path_exists
    /\ easy_exc
    /\ ret = "result"

\* the fallback stub of page index p for an error message
IsStub(md, p, error_msg) ==
    md = <<"# Page " \o ToString(p + 1), "", "[" \o error_msg \o "]">>

\* C9: an exception in one conversion pass degrades that pass's pages only.
\* Cheap pass raised: every page index 0..total_pages-1 holds the fallback
\* stub naming page index+1 and no page is complex.  High-fidelity pass raised:
\* every complex page holds the stub naming page index+1, no image is returned
\* and every other page keeps its cheap-mode markdown.
C9_PassFailureIsLocal ==
    /\ (easy_exc /\ pc \in {"triage", "complex", "merge", "done"}) =>
          /\ DOMAIN easy_page_markdown = 0..(total_pages - 1)
          /\ \A p \in 0..(total_pages - 1) :
                IsStub(easy_page_markdown[p], p, "Error: Easy mode processing failed")
    /\ (easy_exc /\ pc \in {"complex", "merge", "done"}) => complex_pages = <<>>
    /\ (hifi_exc /\ pc \in {"merge", "done"}) =>
          /\ DOMAIN complex_results = Range(complex_pages)
          /\ \A p \in Range(complex_pages) :
                IsStub(complex_results[p], p, "Error processing page: boom")
          /\ all_images = <<>>
    /\ (hifi_exc /\ pc = "done") =>
          /\ \A p \in Range(complex_pages) :
                IsStub(final_page_markdown[p], p, "Error processing page: boom")
          /\ \A p \in DOMAIN easy_page_markdown \ Range(complex_pages) :
                final_page_markdown[p] = easy_page_markdown[p]

C9_Witness ==
    /\ pc = "done"
    /\ hifi_exc
    /\ total_pages = 2
    /\ complex_pages = <<1>>
    /\ final_page_markdown[0] = EasyPageText(0)

\* C10: the pages submitted to the high-fidelity conversion are a subset of
\* the complex pages, each once and ascending; the conversion is not invoked
\* for an empty complex set; and every page of the document has its
\* cheap-mode markdown when the merge starts.
C10_ExpensiveWorkBounded ==
    /\ \A i \in 1..Len(hifi_calls) :
          /\ Range(hifi_calls[i]) \subseteq Range(complex_pages)
          /\ StrictlyAscending(hifi_calls[i])
    /\ Len(hifi_calls) <= 1
    /\ (pc \in {"merge", "done"} /\ complex_pages = <<>>) => hifi_calls = <<>>
    /\ pc = "merge" => (0..(total_pages - 1)) \subseteq DOMAIN easy_page_markdown

\* text and image nodes of a list
TextNodes(node_list) == {i \in 1..Len(node_list) : node_list[i].type = "text"}

ImageNodes(node_list) == {i \in 1..Len(node_list) : node_list[i].type = "image"}

ParentId(node) == node.relationships["1"].node_id

\* C2: for each text node T of a node list built by extract_nodes, the set of
\* ids in T's image_refs equals the set of ids of the image nodes whose parent
\* pointer is T's id (also when one image is attached to several chunks).
C2_ReferentialSymmetry ==
    (runs >= 1 /\ ~nodes_exc) =>
        \A t \in TextNodes(nodes) :
            Range(nodes[t].metadata.image_refs) =
                {nodes[i].id_ : i \in {j \in ImageNodes(nodes) :
                                          ParentId(nodes[j]) = nodes[t].id_}}

C2_Witness ==
    /\ runs >= 1
    /\ Len(chunks) = 2
    /\ chunks[1].images # <<>>
    /\ chunks[2].images = <<chunks[1].images[1], chunks[1].images[1]>>
    /\ Len(nodes) = 2 + Len(chunks[1].images) + 2

\* position in the node list of the text node of chunk j
RECURSIVE TextNodePos(_)
TextNodePos(j) == IF j = 1 THEN 1 ELSE TextNodePos(j - 1) + 1 + Len(chunks[j - 1].images)

\* C3: each image node has exactly one relationships entry, whose node_id is
\* the id of the text node emitted for the chunk that carried the image, a
\* text node of the same list and the only one with that id; text nodes have
\* no relationships.
C3_ImageParent ==
    (runs >= 1 /\ ~nodes_exc) =>
        /\ Len(nodes) = TextNodePos(Len(chunks) + 1) - 1
        /\ \A j \in 1..Len(chunks) :
              LET t == TextNodePos(j)
              IN  /\ nodes[t].type = "text"
                  /\ DOMAIN nodes[t].relationships = {}
                  /\ \A k \in 1..Len(chunks[j].images) :
                        /\ nodes[t + k].type = "image"
                        /\ DOMAIN nodes[t + k].relationships = {"1"}
                        /\ ParentId(nodes[t + k]) = nodes[t].id_
                        /\ {i \in TextNodes(nodes) : nodes[i].id_ = ParentId(nodes[t + k])}
                              = {t}

C3_Witness ==
    /\ runs >= 1
    /\ Len(chunks) = 2
    /\ chunks[1].source_page = chunks[2].source_page
    /\ Len(chunks[1].images) = 2
    /\ Len(chunks[2].images) = 1
    /\ Len(nodes) = 5

\* the last 4 characters of a hash, "0000" for a shorter one
LastFourOrZeros(h) ==
    IF Len(h) < 4 THEN <<"0", "0", "0", "0">>
    ELSE [i \in 1..4 |-> h[Len(h) - 4 + i]]

\* C4: a second run of extract_nodes on the same chunk list yields the same
\* sequence of node ids as the first whenever the two hashes agree in their
\* last 4 characters, whatever the user and the rest of the hash are.
C4_IdempotentIds ==
    (runs >= 2 /\ LastFourOrZeros(file_sha256) = LastFourOrZeros(prev_sha)) =>
        NodeIds(nodes) = prev_ids

C4_Witness ==
    /\ runs = 2
    /\ ~nodes_exc
    /\ file_sha256 # prev_sha
    /\ Len(file_sha256) >= 4
    /\ LastFourOrZeros(file_sha256) = LastFourOrZeros(prev_sha)
    /\ Len(nodes) >= 3
    /\ NodeIds(nodes) = prev_ids

\* the node list of the file the workers ingest
FileNodes == extract_nodes(chunks, file_sha256, user).nodes

\* C5: two workers ingesting the same file content of the same user, in any
\* interleaving of uploads and reference additions and with no lock, leave
\* in the store exactly one object per node of the file and nothing else, each
\* in the collection of its node type under the user's tenant; at no point
\* does the store hold two objects of one node or an object of no node.
C5_ConcurrentIngestIdempotent ==
    /\ \A o \in store_objects :
          /\ o.tenant = user
          /\ \E i \in 1..Len(FileNodes) :
                /\ o.chunk_id = FileNodes[i].id_
                /\ o.collection = (IF FileNodes[i].type = "text" THEN "TextChunk"
                                                                  ELSE "ImageChunk")
    /\ \A o1, o2 \in store_objects : o1.chunk_id = o2.chunk_id => o1 = o2
    /\ \A o1, o2 \in store_objects : o1.uuid = o2.uuid => o1 = o2
    /\ (\E w \in DOMAIN w_pc : w_pc[w] = "done" /\ Len(FileNodes) > 0) =>
          \A i \in 1..Len(FileNodes) :
              \E o \in store_objects : o.chunk_id = FileNodes[i].id_
    /\ (\A w \in DOMAIN w_pc : w_pc[w] = "done") =>
          Cardinality(store_objects) = Len(FileNodes)

C5_Witness ==
    /\ \A w \in Workers : w_pc[w] = "done"
    /\ Len(chunks) = 2
    /\ chunks[1].source_page = chunks[2].source_page
    /\ Cardinality(store_objects) = 4
    /\ \E r \in BagToSet(store_refs) : CopiesIn(r, store_refs) = 2

\* C11: when the content analysis fails (no result, no document, or an
\* exception while scanning tables or pictures, also after some page was
\* already upgraded), analyze_and_triage_pages still returns: every page is
\* labelled simple, simple_pages is 0..total_pages-1 and complex_pages is empty.
C11_FailOpen ==
    (pc = "complex" /\ (triage_exc \/ ~easy_result.present \/ ~easy_result.document)) =>
        /\ complexity_info = [i \in 1..total_pages |-> "simple"]
        /\ simple_pages = PyRange(total_pages)
        /\ complex_pages = <<>>

C11_Witness ==
    /\ pc = "complex"
    /\ triage_exc
    /\ total_pages = 2
    /\ Len(easy_result.tables) = 2
    /\ easy_result.tables[1] = <<[has_page_no |-> TRUE, is_int |-> TRUE, page_no |-> 2]>>
    /\ easy_result.tables[2] = <<[has_page_no |-> TRUE, is_int |-> FALSE, page_no |-> 0]>>
    /\ complex_pages = <<>>

\* the characters of node ids in the order of their code points
CodePointOrder ==
    <<"0", "1", "2", "3", "4", "5", "6", "7", "8", "9", "_",
      "a", "b", "c", "d", "e", "g", "i", "m", "p", "t", "x">>

CodePoint(c) == CHOOSE i \in 1..Len(CodePointOrder) : CodePointOrder[i] = c

\* a < b for two strings, as the comparison of strings orders them
RECURSIVE StrLess(_, _)
StrLess(a, b) ==
    IF b = <<>> THEN FALSE
    ELSE IF a = <<>> THEN TRUE
    ELSE IF Head(a) # Head(b) THEN CodePoint(Head(a)) < CodePoint(Head(b))
    ELSE StrLess(Tail(a), Tail(b))

\* C12: sorting the text nodes of a page-aware chunk list by id string alone
\* puts every node of a lower page before every node of a higher page and
\* keeps the nodes of one page in the order of their chunks, also for page
\* numbers above 99.
C12_IdOrderIsDocumentOrder ==
    (runs >= 1 /\ ~nodes_exc) =>
        \A i, j \in 1..Len(chunks) :
            (\/ chunks[i].source_page < chunks[j].source_page
             \/ chunks[i].source_page = chunks[j].source_page /\ i < j)
            => StrLess(nodes[TextNodePos(i)].id_, nodes[TextNodePos(j)].id_)

\* the number written by the trailing digits of a string
RECURSIVE TrailingNumber(_)
TrailingNumber(s) ==
    IF s = <<>> \/ s[Len(s)] \notin Range(Digits) THEN 0
    ELSE TrailingNumber(SubSeq(s, 1, Len(s) - 1)) * 10
         + (CHOOSE d \in 0..9 : Digits[d + 1] = s[Len(s)])

\* C15 as stated: the sequence number of a text node id counts the chunks of
\* its page: the k-th chunk of a page gets sequence k.
C15_PerPageCounter ==
    (runs >= 1 /\ ~nodes_exc) =>
        \A j \in 1..Len(chunks) :
            TrailingNumber(nodes[TextNodePos(j)].id_) =
                Cardinality({i \in 1..j : chunks[i].source_page = chunks[j].source_page})

\* C15 amended: the sequence number of a text node id counts the chunks of
\* the whole list: the k-th chunk of the list gets sequence k whatever its
\* page is, so the numbering does not restart on a new page.
C15_ListWideCounter ==
    (runs >= 1 /\ ~nodes_exc) =>
        \A j \in 1..Len(chunks) :
            /\ TrailingNumber(nodes[TextNodePos(j)].id_) = j
            /\ nodes[TextNodePos(j)].metadata.page = chunks[j].source_page

C15_Witness ==
    /\ runs >= 1
    /\ ~nodes_exc
    /\ Len(chunks) = 2
    /\ chunks[1].source_page = 1
    /\ chunks[2].source_page = 2
    /\ TrailingNumber(nodes[TextNodePos(2)].id_) = 2

\* the sentences of the page text the splitter works on
PageSentences == _split_into_sentences(StripText(doc_pages[1].text))

\* text s ends with the whole sentence t, at the start of s or after a space
EndsWithSentence(s, t) ==
    /\ Len(s) >= Len(t)
    /\ SubSeq(s, Len(s) - Len(t) + 1, Len(s)) = t
    /\ Len(s) = Len(t) \/ s[Len(s) - Len(t)] = " "

\* C14: for every overlap below chunk_size, each chunk of
\* _split_text_into_chunks ends with a whole sentence of the text and is at
\* most chunk_size plus the length of that trailing sentence long.
C14_ChunkSizeBound ==
    chunked =>
        \A i \in 1..Len(chunks) :
            \E k \in 1..Len(PageSentences) :
                /\ EndsWithSentence(chunks[i].content, PageSentences[k])
                /\ Len(chunks[i].content) <= chunk_size + Len(PageSentences[k])

\* indices of the chunks made from page text and of the chunks made for images
TextChunkIdx == {i \in 1..Len(chunks) : ~chunks[i].primary_image}

ImageChunkIdx == {i \in 1..Len(chunks) : chunks[i].primary_image}

\* the images of the document that carry a caption or an OCR text, as list
\* indices (from 0) in list order
CaptionedImages ==
    SelectSeq([i \in 1..Len(doc_images) |-> i - 1],
              LAMBDA i : doc_images[i + 1].caption # <<>> \/ doc_images[i + 1].ocr_text # <<>>)

\* C13 as stated: in list order the source_page of the chunks never decreases
\* and the sequence numbers of the chunks of one page increase, the chunks
\* made for images included.
C13_ListOrderIsPageOrder ==
    chunked =>
        \A i, j \in 1..Len(chunks) :
            i < j =>
                /\ chunks[i].source_page <= chunks[j].source_page
                /\ chunks[i].source_page = chunks[j].source_page =>
                      TrailingNumber(chunks[i].chunk_id) < TrailingNumber(chunks[j].chunk_id)

\* C13 amended: the chunks made from page text come first, with a source_page
\* that never decreases and, within one page, the sequence numbers 0, 1, 2, ...
\* in list order.  The chunks made for images follow all of them, one per
\* image with a caption or OCR text in the order of the image list, each with
\* its image's page and its image's list index as number; so an image chunk
\* may follow chunks of a higher page.
C13_TextChunksInPageOrder ==
    chunked =>
        /\ \A i \in TextChunkIdx, j \in ImageChunkIdx : i < j
        /\ \A i, j \in TextChunkIdx :
              i < j => chunks[i].source_page <= chunks[j].source_page
        /\ \A i \in TextChunkIdx :
              TrailingNumber(chunks[i].chunk_id) =
                  Cardinality({h \in TextChunkIdx :
                                  h < i /\ chunks[h].source_page = chunks[i].source_page})
        /\ Cardinality(ImageChunkIdx) = Len(CaptionedImages)
        /\ \A n \in 1..Len(CaptionedImages) :
              LET c == chunks[Cardinality(TextChunkIdx) + n]
              IN  /\ c.source_page = doc_images[CaptionedImages[n] + 1].page_number
                  /\ TrailingNumber(c.chunk_id) = CaptionedImages[n]

C13_Witness ==
    /\ chunked
    /\ \E i, j \in TextChunkIdx :
          /\ i < j
          /\ chunks[i].source_page = 1
          /\ chunks[j].source_page = 1
    /\ \E i \in TextChunkIdx, j \in ImageChunkIdx :
          chunks[i].source_page = 2 /\ chunks[j].source_page = 1

\* the page indices below total_pages that have non-blank markdown in the
\* merged page map, ascending
NonBlankPages ==
    SelectSeq(PyRange(total_pages),
              LAMBDA p : p \in DOMAIN final_page_markdown /\ ~IsBlank(final_page_markdown[p]))

\* the stripped markdown of the pages k.. of a page list, the separator
\* between consecutive pages only
RECURSIVE SeparatedPages(_, _)
SeparatedPages(page_list, k) ==
    IF k > Len(page_list) THEN <<"">>
    ELSE IF k = Len(page_list) THEN Strip(final_page_markdown[page_list[k]])
    ELSE Strip(final_page_markdown[page_list[k]]) \o PAGE_SEPARATOR
         \o SeparatedPages(page_list, k + 1)

\* C16: the whole-document markdown is the markdown of the non-blank pages
\* with index below total_pages in ascending page order, the separator between
\* consecutive pages only: it neither starts nor ends with separator text.
C16_SeparatorsBetweenPagesOnly ==
    (pc = "done" /\ ret = "result") =>
        /\ merged_markdown = SeparatedPages(NonBlankPages, 1)
        /\ merged_markdown[Len(merged_markdown)] # "---"
        /\ merged_markdown[1] # "---"

\* the keys of the page map whose text is not blank
NonBlankKeys ==
    {doc_pages[i].key : i \in {j \in 1..Len(doc_pages) : StripText(doc_pages[j].text) # <<>>}}

RequestedInSource ==
    SelectSeq(requested_pages, LAMBDA page_num : page_num < source_doc_len)

\* C18: extract_pages_to_memory returns its pairs in request order, one pair
\* (index, stream of that one page, named page_<index+1>.pdf) for each
\* requested index below the source's page count and none for an index at or
\* past it; when anything raised it returns the empty list, never a part.
C18_ExtractInRequestOrder ==
    extract_called =>
        IF extract_fail_at # 0
        THEN returned_streams = <<>>
        ELSE /\ Len(returned_streams) = Len(RequestedInSource)
             /\ \A n \in 1..Len(returned_streams) :
                   /\ returned_streams[n].original = RequestedInSource[n]
                   /\ returned_streams[n].stream.source_page = RequestedInSource[n]
                   /\ returned_streams[n].stream.name = RequestedInSource[n] + 1

\* a call without failure on a descending request with an index past the end
C18_Witness ==
    /\ extract_called
    /\ extract_fail_at = 0
    /\ source_doc_len = 2
    /\ requested_pages = <<1, 2, 0>>
    /\ Len(returned_streams) = 2
    /\ returned_streams[1].original = 1
    /\ returned_streams[2].original = 0

\* the reference_add calls worker w makes in add_references
SubmittedReferences(w) ==
    LET calls == add_references(w_nodes[w], w_nodes[w][1].metadata.user)
    IN  {calls[i] : i \in 1..Len(calls)}

\* the image nodes of worker w
WorkerImageNodes(w) == {i \in 1..Len(w_nodes[w]) : w_nodes[w][i].type = "image"}

\* a hasImages reference from the text object to the image object is submitted
HasImagesSubmitted(w, i) ==
    \E c \in SubmittedReferences(w) :
        /\ c.collection = "TextChunk"
        /\ c.from_property = "hasImages"
        /\ c.from_uuid = generate_uuid(ParentId(w_nodes[w][i]))
        /\ c.to = generate_uuid(w_nodes[w][i].id_)

\* a belongsToText reference from the image object to the text object is
\* submitted
BelongsToTextSubmitted(w, i) ==
    \E c \in SubmittedReferences(w) :
        /\ c.collection = "ImageChunk"
        /\ c.from_property = "belongsToText"
        /\ c.from_uuid = generate_uuid(w_nodes[w][i].id_)
        /\ c.to = generate_uuid(ParentId(w_nodes[w][i]))

\* C19: when a worker has finished the ingest of its node list, for every
\* image node both directions of the cross-reference were submitted to the
\* store: hasImages from the text object to the image object and
\* belongsToText from the image object to the text object, keyed by the
\* UUIDs of the two node ids.
C19_BothDirectionsSubmitted ==
    \A w \in Workers :
        w_pc[w] = "done" =>
            \A i \in WorkerImageNodes(w) :
                HasImagesSubmitted(w, i) /\ BelongsToTextSubmitted(w, i)

\* C20: the URL list upload_images_batch returns is index-aligned with its
\* input list whatever the order in which the uploads completed: the i-th URL
\* is the URL of the i-th input image, and the id-to-URL map built by zipping
\* the image nodes with the result gives every image node its own URL.
C20_UrlsIndexAligned ==
    up_urls.status = "returned" =>
        /\ Len(up_urls.urls) = Len(up_images)
        /\ \A i \in 1..Len(up_images) :
              up_urls.urls[i] = BlobUrl(up_images[i].tenant, up_images[i].image_id)
        /\ \A i \in 1..Len(ImageChunks(up_chunks)) :
              LET chunk == ImageChunks(up_chunks)[i]
              IN  /\ chunk.id_ \in DOMAIN image_map
                  /\ image_map[chunk.id_] = BlobUrl(chunk.user, chunk.id_)

\* three images whose uploads completed in the reverse of the input order
C20_Witness ==
    /\ up_urls.status = "returned"
    /\ Len(up_images) = 3
    /\ up_completion = <<3, 2, 1>>
    /\ up_images[1].image_id # up_images[3].image_id

\* the text chunks whose content holds image placeholders
MarkerChunkIdx == {i \in TextChunkIdx : CountMarkers(chunks[i].content) > 0}

\* C21: a chunk whose text holds k image placeholders is assigned at most k
\* images, all of its own page, and no image is assigned by placeholder to
\* two different chunks of the document.
C21_PlaceholderImagesOfPageOnce ==
    chunked =>
        /\ \A i \in MarkerChunkIdx :
              /\ Len(chunks[i].images) <= CountMarkers(chunks[i].content)
              /\ \A n \in 1..Len(chunks[i].images) :
                    chunks[i].images[n].page_number = chunks[i].source_page
        /\ \A i, j \in MarkerChunkIdx :
              i # j => \A n \in 1..Len(chunks[i].images), m \in 1..Len(chunks[j].images) :
                          chunks[i].images[n] # chunks[j].images[m]

\* the caption of the image matches the chunk: longer than 10 characters,
\* more than 2 words of more than 3 characters, 70% of them in the chunk
CaptionMatches(image, content) ==
    /\ Len(StripText(image.caption)) > 10
    /\ WordsMatch(StripText(image.caption), LowerText(content), 3, 2, 7)

\* the OCR text of the image matches the chunk: longer than 20 characters,
\* more than 3 words of more than 4 characters, 80% of them in the chunk
OcrMatches(image, content) ==
    /\ Len(StripText(image.ocr_text)) > 20
    /\ WordsMatch(StripText(image.ocr_text), LowerText(content), 4, 3, 8)

\* C22: in a chunk without placeholders, the first image of the document
\* whose caption matches or, the caption not matching, whose OCR text
\* matches, is the image attached to the chunk; this includes an image whose
\* caption is longer than 10 characters and failed its threshold.
C22_OcrTriedAfterCaption ==
    chunked =>
        \A i \in TextChunkIdx :
            CountMarkers(chunks[i].content) = 0 =>
                \A n \in 1..Len(doc_images) :
                    (/\ CaptionMatches(doc_images[n], chunks[i].content)
                        \/ OcrMatches(doc_images[n], chunks[i].content)
                     /\ \A m \in 1..(n - 1) :
                           /\ ~CaptionMatches(doc_images[m], chunks[i].content)
                           /\ ~OcrMatches(doc_images[m], chunks[i].content))
                    => chunks[i].images = <<doc_images[n]>>

\* the overlap text that seeds the chunk after text chunk i
SeedOverlap(i) == OverlapText(chunks[i].content, overlap)

\* the first chunk starts at offset 0
C23_FirstStart == TextChunkIdx # {} => chunks[1].char_start = 0

\* char_end - char_start is the length of the content
C23_SpanIsLength ==
    \A i \in TextChunkIdx : chunks[i].char_end - chunks[i].char_start = Len(chunks[i].content)

\* a chunk seeded with overlap starts where that overlap begins in the text:
\* as many characters before the end of the chunk before it as the overlap
\* text is long
C23_SeededStart ==
    \A i \in TextChunkIdx :
        (i > 1 /\ SeedOverlap(i - 1) # <<>>) =>
            chunks[i].char_start = chunks[i - 1].char_end - Len(SeedOverlap(i - 1))

\* char_end never exceeds the length of the text that was split
C23_EndInText ==
    \A i \in TextChunkIdx : chunks[i].char_end <= Len(doc_pages[1].text)

\* C23: char_start and char_end of the chunks _split_text_into_chunks makes
\* from a text T give the position of the content inside T: the first chunk
\* starts at 0, char_end - char_start is the content length, a chunk seeded
\* with overlap starts at the offset in T where the overlap text begins, and
\* char_end never exceeds the length of T.
C23_OffsetsWithinText ==
    chunked => C23_FirstStart /\ C23_SpanIsLength /\ C23_SeededStart /\ C23_EndInText

\* C24: extract_nodes accepts a chunk without a page: after a run there is
\* one text node per chunk, in chunk order, and its metadata has the page
\* field exactly when the chunk has a source_page greater than 0.
C24_PagelessChunkAccepted ==
    runs >= 1 =>
        /\ ~nodes_exc
        /\ Cardinality(TextNodes(nodes)) = Len(chunks)
        /\ \A j \in 1..Len(chunks) :
              /\ TextNodePos(j) \in TextNodes(nodes)
              /\ "page" \in DOMAIN nodes[TextNodePos(j)].metadata
                    <=> (chunks[j].has_page /\ chunks[j].source_page > 0)

\* C25: the ids of the nodes of one node list are pairwise distinct, whatever
\* the chunk list: text nodes, image nodes and text/image pairs alike, also
\* for chunks of one page and for an image attached to several chunks.
C25_NodeIdsDistinct ==
    runs >= 1 =>
        \A i, j \in 1..Len(nodes) : i # j => nodes[i].id_ # nodes[j].id_

\* two chunks of page 1 that both carry the same image of page 1
C25_Witness ==
    /\ runs >= 1
    /\ Len(chunks) = 2
    /\ chunks[1].source_page = 1 /\ chunks[2].source_page = 1
    /\ chunks[1].images = <<[image_id |-> "image_1", page_number |-> 1]>>
    /\ chunks[2].images = chunks[1].images
    /\ Len(nodes) = 4

\* C26: the chunk_id values of the chunk list of one document are pairwise
\* distinct, in page-aware mode and in header-aware mode, also when one
\* header section is split into sub-chunks and others are single chunks.
C26_ChunkIdsDistinct ==
    chunked =>
        \A i, j \in 1..Len(chunks) : i # j => chunks[i].chunk_id # chunks[j].chunk_id


(***************************************************************************)
(* Image ids of one process_document run                                   *)
(***************************************************************************)

\* C27: every two images that one process_document run returns carry
\* different image_id values, so that the chunker's lookup keyed by image_id
\* (ImageLookupValues) keeps every one of them.
C27_ImageIdsDistinct ==
    ret = "result" =>
        /\ \A i, j \in 1..Len(all_images) :
              i # j => all_images[i].image_id # all_images[j].image_id
        /\ Len(ImageLookupValues(all_images)) = Len(all_images)


----------------------------------------------------------------------------
(***************************************************************************)
(* Per-page markdown by line count: _extract_page_markdown_from_result on  *)
(* a result without a usable per-page export                               *)
(***************************************************************************)

MaxSliceLines == 5   \* lines of the whole-document markdown that is sliced
MaxSlicePages == 3   \* total_pages of the sliced document

\* whole-document markdown texts of non-blank, pairwise different lines
SliceMarkdowns ==
    UNION {[1..k -> {"L", "M"}] : k \in 1..MaxSliceLines}

SliceLines(kinds) == [i \in 1..Len(kinds) |-> kinds[i] \o ToString(i)]

\* the document has no pages attribute, or every page exports a blank text
InitSlices ==
    /\ PipeIdle
    /\ NodesUnset /\ StoreUnset /\ ChunkerUnset /\ ExtractUnset /\ UploadUnset
    /\ RunUnset /\ TagUnset
    /\ \E kinds \in SliceMarkdowns : export_lines = SliceLines(kinds)
    /\ export_total \in 1..MaxSlicePages
    /\ export_pages \in {<<>>, [i \in 1..export_total |-> "blank"]}
    /\ sliced = <<>>
    /\ slice_called = FALSE

ExtractPageMarkdown ==
    /\ ~slice_called
    /\ sliced' = _extract_page_markdown_from_result(
                    TRUE, export_lines, export_pages, export_total, "easy").md
    /\ slice_called' = TRUE
    /\ UNCHANGED <<export_lines, export_pages, export_total>>
    /\ UNCHANGED <<pipe_vars, node_vars, store_vars, chunk_vars, extract_vars,
                   upload_vars, run_vars, tag_vars>>

NextSlices == ExtractPageMarkdown

SpecSlices == InitSlices /\ [][NextSlices]_vars

\* the lines of the pages 0..total_pages-1 of the returned map, page after
\* page ("" is the content of a page that got no line)
RECURSIVE SlicedLinesFrom(_)
SlicedLinesFrom(i) ==
    IF i >= export_total THEN <<>>
    ELSE (IF sliced[i] = <<"">> THEN <<>> ELSE sliced[i]) \o SlicedLinesFrom(i + 1)

\* the slices are consecutive and do not overlap: page after page they
\* spell a prefix of the whole-document markdown
C28_SlicesConsecutive ==
    slice_called =>
        LET got == SlicedLinesFrom(0)
        IN  /\ Len(got) <= Len(export_lines)
            /\ got = SubSeq(export_lines, 1, Len(got))

\* C28: the line-count slices of pages 0..total_pages-1 are consecutive, do
\* not overlap and together hold every line of the whole-document markdown,
\* for every line count and every total_pages >= 1.
C28_SlicesCoverEveryLine ==
    slice_called => SlicedLinesFrom(0) = export_lines


----------------------------------------------------------------------------
(***************************************************************************)
(* The one-shot queue worker: DocumentWorker.run                           *)
(***************************************************************************)

MaxQueued == 2          \* messages that the queue ever holds

max_wait_polls == 15

\* contents of a queue message: one event, a list of events, and contents
\* that _parse_message rejects
MessageContents == {"event", "event_list", "empty_list", "no_url", "not_json"}

\* _parse_message: TRUE when it returns the event data, FALSE for None
_parse_message(content) == content \in {"event", "event_list"}

\* _process_message that reports success whatever happened
ProcessMessageAlwaysTrue(content, preprocess_raises) == TRUE

\* _process_message: False when the message does not parse (preprocess is
\* not called) or preprocess raises
_process_message(content, preprocess_raises) ==
    IF ~_parse_message(content) THEN FALSE
    ELSE ~preprocess_raises

QueueIds == 1..MaxQueued

VisibleMessages == {m \in QueueIds : msg_state[m] = "visible"}

InitRun ==
    /\ PipeIdle
    /\ NodesUnset /\ StoreUnset
    /\ ChunkerUnset /\ ExtractUnset /\ UploadUnset /\ SliceUnset /\ TagUnset
    /\ run_pc = "loop"
    /\ shutdown = FALSE
    /\ polls_without_message = 0
    /\ msg_content \in [QueueIds -> MessageContents]
    /\ msg_state \in [QueueIds -> {"absent", "visible"}]
    /\ message = 0
    /\ handled = <<>>
    /\ loop_error = FALSE

RunUnchanged == UNCHANGED <<pipe_vars, node_vars, store_vars, chunk_vars, extract_vars,
                            upload_vars, slice_vars, tag_vars>>

\* the test of the while loop
LoopTest ==
    /\ run_pc = "loop"
    /\ run_pc' = IF shutdown THEN "exited" ELSE "poll"
    /\ UNCHANGED <<shutdown, polls_without_message, msg_content, msg_state, message,
                   handled, loop_error>>
    /\ RunUnchanged

\* receive_messages raises: the loop logs the error and run returns
PollRaises ==
    /\ run_pc = "poll"
    /\ loop_error' = TRUE
    /\ run_pc' = "exited"
    /\ UNCHANGED <<shutdown, polls_without_message, msg_content, msg_state, message,
                   handled>>
    /\ RunUnchanged

\* receive_messages (max_messages = 1) returns a message, which the queue
\* hides from other receivers
PollReceives(m) ==
    /\ run_pc = "poll"
    /\ m \in VisibleMessages
    /\ msg_state' = [msg_state EXCEPT ![m] = "invisible"]
    /\ message' = m
    /\ run_pc' = "process"
    /\ UNCHANGED <<shutdown, polls_without_message, msg_content, handled, loop_error>>
    /\ RunUnchanged

\* receive_messages returns nothing: count the poll, return at the limit,
\* sleep otherwise
PollEmpty ==
    /\ run_pc = "poll"
    /\ VisibleMessages = {}
    /\ polls_without_message' = polls_without_message + 1
    /\ run_pc' = IF polls_without_message + 1 >= max_wait_polls THEN "exited" ELSE "loop"
    /\ UNCHANGED <<shutdown, msg_content, msg_state, message, handled, loop_error>>
    /\ RunUnchanged

\* success = self._process_message(message), and the branch on it
ProcessMessage ==
    /\ run_pc = "process"
    /\ \E preprocess_raises \in BOOLEAN :
        LET parsed == _parse_message(msg_content[message])
            success == _process_message(msg_content[message], preprocess_raises)
        IN  /\ handled' = Append(handled,
                                 [id |-> message, parsed |-> parsed,
                                  preprocess_called |-> parsed,
                                  preprocess_raised |-> parsed /\ preprocess_raises,
                                  success |-> success])
            /\ run_pc' = IF success THEN "delete" ELSE "exited"
    /\ UNCHANGED <<shutdown, polls_without_message, msg_content, msg_state, message,
                   loop_error>>
    /\ RunUnchanged

\* queue_client.delete_message(message); run returns whether or not it raises
DeleteMessage ==
    /\ run_pc = "delete"
    /\ \E deleted \in BOOLEAN :
        msg_state' = IF deleted THEN [msg_state EXCEPT ![message] = "deleted"]
                                ELSE msg_state
    /\ run_pc' = "exited"
    /\ UNCHANGED <<shutdown, polls_without_message, msg_content, message, handled,
                   loop_error>>
    /\ RunUnchanged

\* SIGINT or SIGTERM arrives: WorkerShutdown._signal_handler
SignalHandler ==
    /\ run_pc # "exited"
    /\ ~shutdown
    /\ shutdown' = TRUE
    /\ UNCHANGED <<run_pc, polls_without_message, msg_content, msg_state, message,
                   handled, loop_error>>
    /\ RunUnchanged

\* a producer puts a message into the queue
Enqueue(m) ==
    /\ msg_state[m] = "absent"
    /\ msg_state' = [msg_state EXCEPT ![m] = "visible"]
    /\ UNCHANGED <<run_pc, shutdown, polls_without_message, msg_content, message,
                   handled, loop_error>>
    /\ RunUnchanged

\* the visibility timeout of a received message passes
VisibilityTimeout(m) ==
    /\ msg_state[m] = "invisible"
    /\ msg_state' = [msg_state EXCEPT ![m] = "visible"]
    /\ UNCHANGED <<run_pc, shutdown, polls_without_message, msg_content, message,
                   handled, loop_error>>
    /\ RunUnchanged

\* the steps of run itself
RunStep ==
    \/ LoopTest
    \/ PollRaises
    \/ \E m \in QueueIds : PollReceives(m)
    \/ PollEmpty
    \/ ProcessMessage
    \/ DeleteMessage

NextRun ==
    \/ RunStep
    \/ SignalHandler
    \/ \E m \in QueueIds : Enqueue(m)
    \/ \E m \in QueueIds : VisibilityTimeout(m)

SpecRun == InitRun /\ [][NextRun]_vars

\* every call that run makes returns (receive_messages is given a timeout,
\* the sleep is POLL_INTERVAL seconds), so run keeps taking steps
SpecRunFair == SpecRun /\ WF_vars(RunStep)

RunHandlesAtMostOne == Len(handled) <= 1

\* a deleted message is one that _process_message reported success for
DeletedOnlyAfterSuccess ==
    \A m \in DOMAIN msg_state :
        msg_state[m] = "deleted" =>
            \E i \in 1..Len(handled) : handled[i].id = m /\ handled[i].success

\* a message that did not parse, or whose preprocess raised, was reported
\* as a failure and is still in the queue
FailedMessageStays ==
    \A i \in 1..Len(handled) :
        (~handled[i].parsed \/ handled[i].preprocess_raised) =>
            /\ ~handled[i].success
            /\ msg_state[handled[i].id] \in {"invisible", "visible"}

\* run returns at the 15th empty poll, having handled nothing
ExitAfterEmptyPolls ==
    /\ polls_without_message <= max_wait_polls
    /\ polls_without_message = max_wait_polls => run_pc = "exited" /\ handled = <<>>

\* a loop test that finds the shutdown flag set ends run, nothing handled
\* by that step
ShutdownStep ==
    (run_pc = "loop" /\ shutdown /\ run_pc' # run_pc) =>
        run_pc' = "exited" /\ handled' = handled /\ msg_state' = msg_state

----------------------------------------------------------------------------
(***************************************************************************)
(* The ingest_state tag of the source blob: preprocess                     *)
(***************************************************************************)

MaxPreNodes == 1     \* nodes of the nodes document that preprocess ingests

\* ingest: raises for an empty node list, for a missing user, and when the
\* vector store does
ingest(node_count, username, store_raises) ==
    IF node_count = 0 THEN "raises"
    ELSE IF username = "" THEN "raises"
    ELSE IF store_raises THEN "raises"
    ELSE "done"

\* process_nodes_with_embeddings_and_ingestion: add_metadata, add_embeddings
\* and ingest in turn
process_nodes_with_embeddings_and_ingestion(data, username, embed_raises, store_raises) ==
    IF embed_raises THEN "raises" ELSE ingest(data, username, store_raises)

\* tags that a source blob carries when its event is handled: none, or the
\* ones an earlier run left
InitialTags ==
    {[ingest_state |-> "none", error |-> FALSE],
     [ingest_state |-> "embedded", error |-> FALSE],
     [ingest_state |-> "embedding_failed", error |-> FALSE],
     [ingest_state |-> "failed", error |-> TRUE]}

InitTags ==
    /\ PipeIdle
    /\ NodesUnset /\ StoreUnset
    /\ ChunkerUnset /\ ExtractUnset /\ UploadUnset /\ SliceUnset /\ RunUnset
    /\ pre_pc = "start"
    /\ \E t \in InitialTags : ingest_state = t.ingest_state /\ error_tag = t.error
    /\ current_tags = [ingest_state |-> "none", error |-> FALSE]
    /\ embedding_status = "unset"
    /\ nodes_json_state = "none"
    /\ pre_nodes = 0
    /\ pre_user \in {"", "u"}
    /\ pre_log = <<>>

TagsUnchanged == UNCHANGED <<pipe_vars, node_vars, store_vars, chunk_vars, extract_vars,
                             upload_vars, slice_vars, run_vars>>

\* blob_manager.get_blob_properties, before the try block
GetBlobProperties ==
    /\ pre_pc = "start"
    /\ \E raises \in BOOLEAN :
        IF raises
        THEN /\ pre_pc' = "raised"
             /\ pre_log' = Append(pre_log, "get_blob_properties raised")
             /\ UNCHANGED current_tags
        ELSE /\ pre_pc' = "mark"
             /\ pre_log' = Append(pre_log, "get_blob_properties")
             /\ current_tags' = [ingest_state |-> ingest_state, error |-> error_tag]
    /\ UNCHANGED <<ingest_state, error_tag, embedding_status, nodes_json_state,
                   pre_nodes, pre_user>>
    /\ TagsUnchanged

\* current_tags["ingest_state"] = "processing" and update_blob_tags, before
\* the try block
MarkProcessing ==
    /\ pre_pc = "mark"
    /\ current_tags' = [current_tags EXCEPT !.ingest_state = "processing"]
    /\ \E raises \in BOOLEAN :
        IF raises
        THEN /\ pre_pc' = "raised"
             /\ pre_log' = Append(pre_log, "update_blob_tags raised")
             /\ UNCHANGED <<ingest_state, error_tag>>
        ELSE /\ pre_pc' = "download"
             /\ pre_log' = Append(pre_log, "update_blob_tags processing")
             /\ ingest_state' = "processing"
             /\ error_tag' = current_tags.error
    /\ UNCHANGED <<embedding_status, nodes_json_state, pre_nodes, pre_user>>
    /\ TagsUnchanged

\* blob_manager.download_blob
DownloadBlob ==
    /\ pre_pc = "download"
    /\ \E raises \in BOOLEAN :
        IF raises
        THEN /\ pre_pc' = "handler"
             /\ pre_log' = Append(pre_log, "download_blob raised")
        ELSE /\ pre_pc' = "process"
             /\ pre_log' = Append(pre_log, "download_blob")
    /\ UNCHANGED <<ingest_state, error_tag, current_tags, embedding_status,
                   nodes_json_state, pre_nodes, pre_user>>
    /\ TagsUnchanged

\* process_file_content
ProcessFileContent ==
    /\ pre_pc = "process"
    /\ \E raises \in BOOLEAN, n \in 0..MaxPreNodes :
        IF raises
        THEN /\ pre_pc' = "handler"
             /\ pre_log' = Append(pre_log, "process_file_content raised")
             /\ UNCHANGED pre_nodes
        ELSE /\ pre_pc' = "embed"
             /\ pre_log' = Append(pre_log, "process_file_content")
             /\ pre_nodes' = n
    /\ UNCHANGED <<ingest_state, error_tag, current_tags, embedding_status,
                   nodes_json_state, pre_user>>
    /\ TagsUnchanged

\* the inner try block around process_nodes_with_embeddings_and_ingestion
EmbedAndIngest ==
    /\ pre_pc = "embed"
    /\ \E embed_raises \in BOOLEAN, store_raises \in BOOLEAN :
        LET r == process_nodes_with_embeddings_and_ingestion(
                     pre_nodes, pre_user, embed_raises, store_raises)
        IN  IF r = "raises"
            THEN /\ embedding_status' = "embedding_failed"
                 /\ pre_log' = Append(pre_log, "embedding raised")
            ELSE /\ embedding_status' = "embedded"
                 /\ pre_log' = Append(pre_log, "embedding")
    /\ pre_pc' = "upload"
    /\ UNCHANGED <<ingest_state, error_tag, current_tags, nodes_json_state, pre_nodes,
                   pre_user>>
    /\ TagsUnchanged

\* blob_manager.upload_processed_file of the nodes JSON
UploadNodesJson ==
    /\ pre_pc = "upload"
    /\ \E raises \in BOOLEAN :
        IF raises
        THEN /\ pre_pc' = "handler"
             /\ pre_log' = Append(pre_log, "upload_processed_file raised")
             /\ UNCHANGED nodes_json_state
        ELSE /\ pre_pc' = "retag"
             /\ pre_log' = Append(pre_log, "upload_processed_file")
             /\ nodes_json_state' = embedding_status
    /\ UNCHANGED <<ingest_state, error_tag, current_tags, embedding_status, pre_nodes,
                   pre_user>>
    /\ TagsUnchanged

\* current_tags["ingest_state"] = embedding_status and update_blob_tags, the
\* last statements of the try block
MarkComplete ==
    /\ pre_pc = "retag"
    /\ current_tags' = [current_tags EXCEPT !.ingest_state = embedding_status]
    /\ \E raises \in BOOLEAN :
        IF raises
        THEN /\ pre_pc' = "handler"
             /\ pre_log' = Append(pre_log, "update_blob_tags raised")
             /\ UNCHANGED <<ingest_state, error_tag>>
        ELSE /\ pre_pc' = "returned"
             /\ pre_log' = Append(pre_log, "update_blob_tags complete")
             /\ ingest_state' = embedding_status
             /\ error_tag' = current_tags.error
    /\ UNCHANGED <<embedding_status, nodes_json_state, pre_nodes, pre_user>>
    /\ TagsUnchanged

\* the except block: tag the blob failed with the error, and re-raise; an
\* exception of update_blob_tags leaves the block in place of the first one
MarkFailed ==
    /\ pre_pc = "handler"
    /\ current_tags' = [current_tags EXCEPT !.ingest_state = "failed", !.error = TRUE]
    /\ \E raises \in BOOLEAN :
        IF raises
        THEN /\ pre_log' = Append(pre_log, "update_blob_tags in except raised")
             /\ UNCHANGED <<ingest_state, error_tag>>
        ELSE /\ pre_log' = Append(pre_log, "update_blob_tags failed")
             /\ ingest_state' = "failed"
             /\ error_tag' = TRUE
    /\ pre_pc' = "raised"
    /\ UNCHANGED <<embedding_status, nodes_json_state, pre_nodes, pre_user>>
    /\ TagsUnchanged

NextTags ==
    \/ GetBlobProperties
    \/ MarkProcessing
    \/ DownloadBlob
    \/ ProcessFileContent
    \/ EmbedAndIngest
    \/ UploadNodesJson
    \/ MarkComplete
    \/ MarkFailed

SpecTags == InitTags /\ [][NextTags]_vars

Logged(entry) == \E i \in 1..Len(pre_log) : pre_log[i] = entry

PreprocessFinished == pre_pc \in {"returned", "raised"}

\* the blob was tagged processing before download_blob was called
ProcessingBeforeDownload ==
    /\ pre_pc = "download" => ingest_state = "processing"
    /\ \A i \in 1..Len(pre_log) :
          pre_log[i] \in {"download_blob", "download_blob raised"} =>
              \E j \in 1..(i - 1) : pre_log[j] = "update_blob_tags processing"

\* a preprocess that tagged the blob processing does not finish with that tag
FinishedNotProcessing ==
    (PreprocessFinished /\ Logged("update_blob_tags processing")) =>
        ingest_state # "processing"

\* embedded after a successful embedding and ingestion
EmbeddedWhenIngested ==
    (pre_pc = "returned" /\ Logged("embedding")) => ingest_state = "embedded"

\* embedding_failed when they raised, with the nodes JSON uploaded and a
\* normal return (nothing else raised)
EmbeddingFailedWhenRaised ==
    (PreprocessFinished /\ Logged("embedding raised")
        /\ Logged("update_blob_tags complete")) =>
        /\ pre_pc = "returned"
        /\ ingest_state = "embedding_failed"
        /\ nodes_json_state = "embedding_failed"

\* failed with an error tag, and an exception, when the download, the
\* document processing or the JSON upload raised
FailedWhenRaised ==
    (PreprocessFinished
        /\ (Logged("download_blob raised") \/ Logged("process_file_content raised")
            \/ Logged("upload_processed_file raised"))) =>
        /\ pre_pc = "raised"
        /\ ingest_state = "failed"
        /\ error_tag

\* C30: preprocess tags the source blob processing before it downloads it;
\* when preprocess has finished the tag is no longer processing: embedded
\* after embedding and ingestion succeeded, embedding_failed when they raised
\* (the nodes JSON uploaded, normal return), and failed with an error tag when
\* download, document processing or the JSON upload raised (re-raised).
C30_TagLeavesProcessing ==
    /\ ProcessingBeforeDownload
    /\ FinishedNotProcessing
    /\ EmbeddedWhenIngested
    /\ EmbeddingFailedWhenRaised
    /\ FailedWhenRaised

\* the same with every update_blob_tags call of the except block succeeding
C30_WhenFailureTagWritten ==
    ~Logged("update_blob_tags in except raised") => C30_TagLeavesProcessing

====
